---- MODULE Spec2Model ----
(***************************************************************************)
(* A model of guidoc (src/guidoc/guidoc.py): the indentation-sensitive     *)
(* tree builder, the grid-table extractor, the layout merger, the          *)
(* validation of layout managers and the widget code emitter.              *)
(*                                                                         *)
(* Python objects are modelled by value: a node is named by the 1-based    *)
(* index of the line it was parsed from, a list object by a reference (0   *)
(* for the root list `nodes`, k for `children` of node k), a dict by a     *)
(* function, None by the definitions None / NoName.                        *)
(***************************************************************************)
EXTENDS Integers, Sequences, FiniteSets, TLC

\* ------------------------------------------------------------------ bounds

\* Longest sequence of lines handed to parse_indented_list.
MaxLines == 4
\* Largest number of leading spaces of a line.
MaxIndent == 3
\* Largest number of rows and of columns of a grid table.
MaxRows == 3
MaxCols == 3
\* Largest number of cells (rows times columns) of a grid table.
MaxCells == 8
\* Longest layout specification (header and content lines) of the family
\* of specifications with several sections.
MaxSpecLines == 3
\* Most widget lines of the family of specifications with one widget tree.
MaxWidgets == 3
\* Most widget lines of a tree handed to generate_widget_code.
MaxEmitLines == 3
\* Most lines of a menu section.
MaxMenuLines == 3
\* Longest line of text handed to the comment removal and longest menu
\* label handed to MenuSpec.
MaxChars == 5

\* ------------------------------------------------------------- variables

VARIABLES
  \* parse_indented_list (SpecIndent)
  lines,        \* the argument: a sequence of [indent, ok] (ok: parse_func returns)
  pos,          \* number of lines the for loop has consumed
  cur_indent,   \* local cur_indent
  cur_level,    \* local cur_level: a list reference
  stack,        \* local stack: sequence of <<indent, list reference>>
  nodes,        \* local nodes: the root list
  children,     \* children[k]: the children list of the node of line k
  pstate,       \* "scan" | "returned" | "raised"
  exc           \* the exception that left the call ("none" while there is none)

indentVars == <<lines, pos, cur_indent, cur_level, stack, nodes, children, pstate, exc>>

VARIABLES
  \* GridSection.parse (SpecGrid)
  gstate,       \* "call" | "rows" | "returned" | "raised"
  gexc,         \* the exception that left the call ("none" while there is none)
  num_rows,     \* local num_rows
  num_cols,     \* local num_cols
  cell_row,     \* j of the loop of line 464
  entry_i,      \* i of the loop of line 467
  col_offset,   \* local col_offset
  cell_map,     \* local cell_map
  grid_data,    \* self.grid_data
  covered,      \* the table as the markup parser laid it out: the cells its
                \* entries delivered so far cover
  truth,        \* for each named entry delivered: its place in that layout
  last_entry    \* the entry delivered last in the current row (or NoEntry)

gridVars == <<gstate, gexc, num_rows, num_cols, cell_row, entry_i, col_offset,
              cell_map, grid_data, covered, truth, last_entry>>

VARIABLES
  \* create_layout_method (SpecLayout)
  layout,            \* the argument layout: its non-empty lines, classified
  have_docutils,     \* module global have_docutils
  require_docutils,  \* the argument require_docutils
  lstate,            \* "called" | "split" | "parsed" | "merged" | "validated"
                     \* | "returned" | "raised"
  lexc,              \* the exception that left the call (NoExc while none)
  sections,          \* local sections
  method_body        \* local method_body

layoutVars == <<layout, have_docutils, require_docutils, lstate, lexc,
                sections, method_body>>

VARIABLES
  \* WidgetSection.generate_widget_code (SpecEmit)
  emit_sec,   \* the section that owns the argument widgets
  emit_prefix,   \* the argument emit_prefix
  top_parent,   \* the argument parent of the outermost call
  frames,       \* the generators that are running, outermost first
  yielded,      \* the statements yielded so far
  estate,       \* "run" | "done" | "raised"
  eexc          \* the exception that ended the generators

emitVars == <<emit_sec, emit_prefix, top_parent, frames, yielded, estate, eexc>>

VARIABLES
  \* the comment removal of parse_layout_spec (SpecComment)
  cline,        \* l as spec.split yields it: a sequence of characters
  ckept,        \* l after line 715
  cstate        \* "read" | "stripped"

commentVars == <<cline, ckept, cstate>>

VARIABLES
  \* MenuSpec.__init__ (SpecLabel)
  label_in,     \* the argument label: a sequence of characters
  label_spec,   \* the attributes label and underline of the new object
  label_state   \* "called" | "stored"

labelVars == <<label_in, label_spec, label_state>>

VARIABLES
  \* MenuSection.code (SpecMenu)
  menu_sec,     \* self: the parsed menu section
  menu_frames,  \* the running generators of generate_menu_code, outermost first
  menu_out,     \* the lines yielded so far
  menu_src,     \* the item each of them was yielded for (0: the section)
  menu_attach_i, \* the lines of menu_attach yielded (lines 680-681)
  menu_state    \* "called" | "heading" | "items" | "attach" | "done"

menuVars == <<menu_sec, menu_frames, menu_out, menu_src, menu_attach_i, menu_state>>

unitVars == <<commentVars, labelVars, menuVars>>

vars == <<indentVars, gridVars, layoutVars, emitVars, unitVars>>

\* ---------------------------------------------------------------- helpers

\* Python's None where an integer may stand too (cur_indent, a frame's indent).
None == -1

Last(s) == s[Len(s)]

Front(s) == SubSeq(s, 1, Len(s) - 1)

Range(s) == {s[i] : i \in 1..Len(s)}

Max(S) == CHOOSE x \in S : \A y \in S : y <= x

\* All sequences over S of length lo..hi.
SeqsOf(S, lo, hi) == UNION {[1..n -> S] : n \in lo..hi}

\* The function f with the key k bound to v (dict[k] = v).
Put(f, k, v) == [x \in DOMAIN f \cup {k} |-> IF x = k THEN v ELSE f[x]]

\* The empty dict.
EmptyDict == [x \in {} |-> 0]

\* Python's None where a string may stand too (a section's param, a layout
\* manager); no \w+ token equals it.
NoName == "<None>"

Min(S) == CHOOSE x \in S : \A y \in S : x <= y

\* ------------------------------------------------- parse_indented_list

\* The list a reference names, in a heap <<nodes, children>>.
ListAt(st, ref) == IF ref = 0 THEN st.nodes ELSE st.children[ref]

\* list.append(n) on the list a reference names.
AppendTo(st, ref, n) ==
  IF ref = 0
    THEN [st EXCEPT !.nodes = Append(@, n)]
    ELSE [st EXCEPT !.children[ref] = Append(@, n)]

\* The state before the for loop (lines 90-94), for an input of n lines.
IndentStart(n) ==
  [cur_indent |-> None,
   cur_level  |-> 0,
   stack      |-> << <<None, 0>> >>,
   nodes      |-> <<>>,
   children   |-> [k \in 1..n |-> <<>>],
   exc        |-> "none"]

\* The while loop of the dedent branch (lines 110-114).
PopOnce(st, next_indent) ==
  LET stk == Front(st.stack)
      top == Last(stk)
  IN  [st EXCEPT !.stack = stk,
                 !.cur_indent = IF top[1] = None THEN next_indent ELSE top[1],
                 !.cur_level = top[2]]

\* A slip: an `if` for the `while` of line 110, one frame popped at most.
PopFramesIf(st, next_indent) ==
  IF next_indent < st.cur_indent /\ Len(st.stack) > 1
    THEN PopOnce(st, next_indent)
    ELSE st

RECURSIVE PopFrames(_, _)
PopFrames(st, next_indent) ==
  IF next_indent < st.cur_indent /\ Len(st.stack) > 1
    THEN PopFrames(PopOnce(st, next_indent), next_indent)
    ELSE st

\* Which branch of lines 101-115 a line of the given indent takes.
Branch(st, next_indent) ==
  IF st.cur_indent = None \/ next_indent = st.cur_indent THEN "same"
  ELSE IF next_indent > st.cur_indent THEN "deeper"
  ELSE "dedent"

\* Lines 101-103.
StepSame(st, n, next_indent) ==
  [AppendTo(st, st.cur_level, n) EXCEPT !.cur_indent = next_indent]

\* A slip: cur_level[0], the first node of the current list.
LevelOwnerFirst(st) == ListAt(st, st.cur_level)[1]

\* cur_level[-1] of line 106: the node appended last to the current list.
LevelOwner(st) == Last(ListAt(st, st.cur_level))

\* Lines 104-108: the new frame is the children list of cur_level[-1]
\* (an IndexError if that list is empty).
StepDeeper(st, n, next_indent) ==
  IF ListAt(st, st.cur_level) = <<>>
    THEN [st EXCEPT !.cur_indent = next_indent, !.exc = "IndexError"]
    ELSE LET owner == LevelOwner(st)
             pushed == [st EXCEPT !.cur_indent = next_indent,
                                  !.stack = Append(@, <<next_indent, owner>>),
                                  !.cur_level = owner]
         IN  AppendTo(pushed, owner, n)

\* A slip: the dedenting line's node not appended (line 115 left out).
StepDedentDrop(st, n, next_indent) == PopFrames(st, next_indent)

\* Lines 109-115.
StepDedent(st, n, next_indent) ==
  LET popped == PopFrames(st, next_indent)
  IN  AppendTo(popped, popped.cur_level, n)

\* One iteration of the for loop (lines 96-115) for node n, parse_func having
\* returned.
ScanLine(st, n, next_indent) ==
  CASE Branch(st, next_indent) = "same"   -> StepSame(st, n, next_indent)
    [] Branch(st, next_indent) = "deeper" -> StepDeeper(st, n, next_indent)
    [] OTHER                              -> StepDedent(st, n, next_indent)

\* The locals of the running call, as one record.
IndentNow ==
  [cur_indent |-> cur_indent, cur_level |-> cur_level, stack |-> stack,
   nodes |-> nodes, children |-> children, exc |-> exc]

\* The locals after one iteration; an exception leaves the call.
SetIndent(st) ==
  /\ cur_indent' = st.cur_indent
  /\ cur_level' = st.cur_level
  /\ stack' = st.stack
  /\ nodes' = st.nodes
  /\ children' = st.children
  /\ exc' = st.exc
  /\ pstate' = IF st.exc = "none" THEN "scan" ELSE "raised"

\* The variables of parse_indented_list while no call of it is modelled.
IndentIdle ==
  /\ lines = <<>>
  /\ pos = 0
  /\ cur_indent = None
  /\ cur_level = 0
  /\ stack = <<>>
  /\ nodes = <<>>
  /\ children = <<>>
  /\ pstate = "idle"
  /\ exc = "none"

\* The variables of GridSection.parse while no call of it is modelled.
GridIdle ==
  /\ gstate = "idle"
  /\ gexc = "none"
  /\ num_rows = 0
  /\ num_cols = 0
  /\ cell_row = 0
  /\ entry_i = 0
  /\ col_offset = 0
  /\ cell_map = <<>>
  /\ grid_data = EmptyDict
  /\ covered = <<>>
  /\ truth = EmptyDict
  /\ last_entry = <<>>

\* No exception.
NoExc == [type |-> "none"]

\* The variables of create_layout_method while no call of it is modelled.
LayoutIdle ==
  /\ layout = <<>>
  /\ have_docutils = FALSE
  /\ require_docutils = FALSE
  /\ lstate = "idle"
  /\ lexc = NoExc
  /\ sections = <<>>
  /\ method_body = <<>>

\* The variables of generate_widget_code while no call of it is modelled.
EmitIdle ==
  /\ emit_sec = <<>>
  /\ emit_prefix = NoName
  /\ top_parent = NoName
  /\ frames = <<>>
  /\ yielded = <<>>
  /\ estate = "idle"
  /\ eexc = NoExc

\* The variables of the comment removal while no line is modelled.
CommentIdle ==
  /\ cline = <<>>
  /\ ckept = <<>>
  /\ cstate = "idle"

\* The variables of MenuSpec.__init__ while no call of it is modelled.
LabelIdle ==
  /\ label_in = <<>>
  /\ label_spec = [label |-> <<>>, underline |-> -1]
  /\ label_state = "idle"

\* The variables of MenuSection.code while no call of it is modelled.
MenuIdle ==
  /\ menu_sec = <<>>
  /\ menu_frames = <<>>
  /\ menu_out = <<>>
  /\ menu_src = <<>>
  /\ menu_attach_i = 0
  /\ menu_state = "idle"

UnitIdle ==
  /\ CommentIdle
  /\ LabelIdle
  /\ MenuIdle

\* The inputs: every sequence of 0..MaxLines lines.
LineSet == [indent : 0..MaxIndent, ok : BOOLEAN]

\* parse_indented_list(lines, parse_func) is called: lines 90-94 have run.
IndentInit ==
  /\ lines \in SeqsOf(LineSet, 0, MaxLines)
  /\ pos = 0
  /\ cur_indent = IndentStart(Len(lines)).cur_indent
  /\ cur_level = IndentStart(Len(lines)).cur_level
  /\ stack = IndentStart(Len(lines)).stack
  /\ nodes = IndentStart(Len(lines)).nodes
  /\ children = IndentStart(Len(lines)).children
  /\ exc = IndentStart(Len(lines)).exc
  /\ pstate = "scan"
  /\ GridIdle
  /\ LayoutIdle
  /\ EmitIdle
  /\ UnitIdle

\* The line the for loop takes next.
NextLine == lines[pos + 1]

Scanning == pstate = "scan" /\ pos < Len(lines)

\* Line 100: parse_func raises; the exception leaves parse_indented_list.
ParseRaises ==
  /\ Scanning
  /\ ~NextLine.ok
  /\ pstate' = "raised"
  /\ exc' = "ParseError"
  /\ UNCHANGED <<lines, pos, cur_indent, cur_level, stack, nodes, children>>
  /\ UNCHANGED <<gridVars, layoutVars, emitVars, unitVars>>

\* Lines 101-103: first line, or same indent as the current level.
LineSame ==
  /\ Scanning
  /\ NextLine.ok
  /\ Branch(IndentNow, NextLine.indent) = "same"
  /\ SetIndent(ScanLine(IndentNow, pos + 1, NextLine.indent))
  /\ pos' = pos + 1
  /\ UNCHANGED <<lines, gridVars, layoutVars, emitVars, unitVars>>

\* Lines 104-108: deeper than the current level.
LineDeeper ==
  /\ Scanning
  /\ NextLine.ok
  /\ Branch(IndentNow, NextLine.indent) = "deeper"
  /\ SetIndent(ScanLine(IndentNow, pos + 1, NextLine.indent))
  /\ pos' = pos + 1
  /\ UNCHANGED <<lines, gridVars, layoutVars, emitVars, unitVars>>

\* Lines 109-115: shallower than the current level.
LineDedent ==
  /\ Scanning
  /\ NextLine.ok
  /\ Branch(IndentNow, NextLine.indent) = "dedent"
  /\ SetIndent(ScanLine(IndentNow, pos + 1, NextLine.indent))
  /\ pos' = pos + 1
  /\ UNCHANGED <<lines, gridVars, layoutVars, emitVars, unitVars>>

\* Line 117: the loop is over, nodes is returned.
IndentReturn ==
  /\ pstate = "scan"
  /\ pos = Len(lines)
  /\ pstate' = "returned"
  /\ UNCHANGED <<lines, pos, cur_indent, cur_level, stack, nodes, children, exc>>
  /\ UNCHANGED <<gridVars, layoutVars, emitVars, unitVars>>

IndentNext ==
  \/ ParseRaises
  \/ LineSame
  \/ LineDeeper
  \/ LineDedent
  \/ IndentReturn

SpecIndent == IndentInit /\ [][IndentNext]_vars

\* ------------------------------------- parse_indented_list: properties

\* The leading-space counts of the input lines.
Indents == [i \in 1..Len(lines) |-> lines[i].indent]

\* The indentation levels open after line i of a list of indents, read as
\* the claim's definition of a well-formed list: a line keeps the level of
\* the line before it, opens a deeper one, or returns to a level still open.
RECURSIVE RefLevels(_, _)
RefLevels(ind, i) ==
  IF i = 1 THEN [ok |-> TRUE, open |-> <<ind[1]>>]
  ELSE LET prev == RefLevels(ind, i - 1)
           back == {k \in 1..Len(prev.open) : prev.open[k] = ind[i]}
       IN  IF ~prev.ok THEN prev
           ELSE IF ind[i] > Last(prev.open)
             THEN [ok |-> TRUE, open |-> Append(prev.open, ind[i])]
           ELSE IF back # {}
             THEN [ok |-> TRUE, open |-> SubSeq(prev.open, 1, Max(back))]
           ELSE [ok |-> FALSE, open |-> <<>>]

WellFormed(ind) ==
  /\ Len(ind) >= 1
  /\ \A i \in 1..Len(ind) : ind[i] >= ind[1]
  /\ RefLevels(ind, Len(ind)).ok

\* Depth of line i in a well-formed list (0 for the first line's level).
RefDepth(ind, i) == Len(RefLevels(ind, i).open) - 1

\* The nearest preceding line one level up (0: none, a root).
RefParent(ind, i) ==
  IF RefDepth(ind, i) = 0 THEN 0
  ELSE Max({j \in 1..(i - 1) : RefDepth(ind, j) = RefDepth(ind, i) - 1})

\* The lists of the built forest that hold node i (0 names the root list).
Owners(i) ==
  {k \in 0..Len(lines) : i \in Range(ListAt(IndentNow, k))}

\* A list of nodes in the relative order of their lines, each once.
InLineOrder(s) == \A a, b \in 1..Len(s) : a < b => s[a] < s[b]

\* C1: for a well-formed indented list, the parent of each node at depth d
\* is the nearest preceding line at depth d-1, the roots are exactly the
\* lines at the first line's indent, and every children list (and the root
\* list) keeps the relative order of the input lines.
C1_IndentTree ==
  (pstate = "returned" /\ WellFormed(Indents)) =>
    /\ \A i \in 1..Len(lines) : Owners(i) = {RefParent(Indents, i)}
    /\ Range(nodes) = {i \in 1..Len(lines) : Indents[i] = Indents[1]}
    /\ \A k \in 0..Len(lines) : InLineOrder(ListAt(IndentNow, k))

\* A well-formed list with a node at depth 2, a return to an open level and
\* two candidate parents one level up has been parsed.
C1_Witness ==
  /\ pstate = "returned"
  /\ WellFormed(Indents)
  /\ \E i, j \in 1..Len(lines) :
       /\ i < j
       /\ RefDepth(Indents, i) = 2
       /\ RefDepth(Indents, j) = 1
       /\ Cardinality({k \in 1..(j - 1) : RefDepth(Indents, k) = 0}) >= 1
       /\ Cardinality({k \in 1..(i - 1) : RefDepth(Indents, k) = 1}) >= 1
       /\ j \in Range(children[RefParent(Indents, j)])

\* C9 (as claimed): every line indented deeper than the line immediately
\* before it has become a child of that line's node.
C9_DeeperIsChild ==
  \A i \in 2..pos :
    Indents[i] > Indents[i - 1] => i \in Range(children[i - 1])

\* The frame a dedenting line belongs to: the topmost open frame whose
\* indent is at most the line's, the root frame (index 1) matching always.
NearestFrame(stk, ni) ==
  Max({1} \cup {k \in 2..Len(stk) : stk[k][1] <= ni})

\* C10: a line shallower than the current frame pops frames down to the
\* nearest enclosing frame of smaller-or-equal indent (the root frame
\* matching always) and is appended to that frame's list, whether or not
\* its indent equals an open frame's; no error is raised.
C10_DedentNearestFrame ==
  [][(Scanning /\ NextLine.ok /\ cur_indent # None
        /\ NextLine.indent < cur_indent) =>
       LET f == NearestFrame(stack, NextLine.indent)
           target == stack[f][2]
       IN  /\ pstate' = "scan"
           /\ exc' = "none"
           /\ stack' = SubSeq(stack, 1, f)
           /\ cur_level' = target
           /\ nodes' = IF target = 0 THEN Append(nodes, pos + 1) ELSE nodes
           /\ children' = IF target = 0 THEN children
                           ELSE [children EXCEPT ![target] = Append(@, pos + 1)]
    ]_vars

\* A dedent to an indent no open frame has, attached to a frame that is
\* neither the root nor the one popped: indents such as 0, 1, 3, 2.
C10_Witness ==
  /\ pos >= 4
  /\ Indents[pos] < Indents[pos - 1]
  /\ \A k \in 1..(pos - 1) : Indents[k] # Indents[pos]
  /\ cur_level \notin {0, pos - 1}
  /\ pos \in Range(children[cur_level])
  /\ Len(stack) = 2


\* ---------------------------------------------------- GridSection.parse

\* The text of an entry that holds no single paragraph (line 469 skips it).
NoPara == "<empty>"

\* The key of grid_data that holds the section's param (line 414).
ContainerKey == "_container"

\* Line 414: self.grid_data = {'_container': param}.
GridDataInit(param) == Put(EmptyDict, ContainerKey, [container |-> param])

\* Line 461: num_rows lists of num_cols times False (0-based, as in Python).
CellMapInit(nrows, ncols) ==
  [r \in 0..(nrows - 1) |-> [c \in 0..(ncols - 1) |-> FALSE]]

\* The while loop of lines 481-483 on one row of cell_map: the subscript is
\* evaluated before `cell_col < num_cols`, so running off the row is an
\* IndexError.
RECURSIVE SkipOccupied(_, _, _, _)
SkipOccupied(rowmap, col, off, ncols) ==
  IF col \notin DOMAIN rowmap
    THEN [col |-> col, off |-> off, exc |-> "IndexError"]
  ELSE IF rowmap[col] /\ col < ncols
    THEN SkipOccupied(rowmap, col + 1, off + 1, ncols)
  ELSE [col |-> col, off |-> off, exc |-> "none"]

\* Lines 478-485: the column of a named entry whose first guess is col.
FindColumn(cmap, row, col, off, ncols) ==
  IF col \notin DOMAIN cmap[row]
    THEN [col |-> col, off |-> off, exc |-> "IndexError"]
  ELSE IF cmap[row][col]
    THEN LET sk == SkipOccupied(cmap[row], col, off, ncols)
         IN  IF sk.exc = "none" /\ cmap[row][sk.col]
               THEN [sk EXCEPT !.exc = "GridError"]
               ELSE sk
  ELSE [col |-> col, off |-> off, exc |-> "none"]

\* A slip: columnspan written for every widget, spanning or not.
CellDictAlwaysSpan(row, col, e) ==
  [row |-> row, column |-> col, columnspan |-> e.morecols + 1]

\* Lines 489-499: the dict saved for a widget; 'morecols' / 'morerows' are
\* attributes of the entry only when they are not 0.
CellDict(row, col, e) ==
  LET base == [row |-> row, column |-> col]
      wide == IF e.morecols > 0
                THEN Put(base, "columnspan", e.morecols + 1) ELSE base
  IN  IF e.morerows > 0 THEN Put(wide, "rowspan", e.morerows + 1) ELSE wide

\* Lines 501-504: the cells of the rectangle, marked one by one.
MarkCells(cmap, row, col, height, width) ==
  IF \E n \in row..(row + height - 1), m \in col..(col + width - 1) :
       n \notin DOMAIN cmap \/ m \notin DOMAIN cmap[n]
    THEN [map |-> cmap, exc |-> "IndexError"]
    ELSE [map |-> [n \in DOMAIN cmap |-> [m \in DOMAIN cmap[n] |->
                    IF n \in row..(row + height - 1)
                         /\ m \in col..(col + width - 1)
                      THEN TRUE ELSE cmap[n][m]]],
          exc |-> "none"]

\* Lines 468-504: one entry e, the i-th of row j.
ParseEntry(gs, row, idx, e, ncols) ==
  IF e.name = NoPara THEN gs
  ELSE LET at == FindColumn(gs.cell_map, row, idx + gs.col_offset,
                            gs.col_offset, ncols)
           marked == MarkCells(gs.cell_map, row, at.col,
                               e.morerows + 1, e.morecols + 1)
       IN  IF at.exc # "none" THEN [gs EXCEPT !.exc = at.exc]
           ELSE [cell_map   |-> marked.map,
                 grid_data  |-> Put(gs.grid_data, e.name, CellDict(row, at.col, e)),
                 col_offset |-> at.off + e.morecols,
                 exc        |-> marked.exc]

\* The locals of the running call, as one record.
GridNow ==
  [cell_map |-> cell_map, grid_data |-> grid_data, col_offset |-> col_offset,
   exc |-> gexc]

\* The names the table's named cells carry, in document order.
WidgetNames ==
  <<"w1", "w2", "w3", "w4", "w5", "w6", "w7", "w8", "w9", "w10", "w11", "w12",
    "w13", "w14", "w15", "w16", "w17", "w18", "w19", "w20">>

NoEntry == <<>>

\* The columns of the current row no delivered entry covers yet.
FreeCols == {c \in 0..(num_cols - 1) : ~covered[cell_row][c]}

\* The spans an entry at the first free column of the current row may have
\* in a table the markup parser accepts: within the table, over free cells.
SpanChoices ==
  {sp \in [morecols : 0..(num_cols - 1), morerows : 0..(num_rows - 1)] :
     /\ cell_row + sp.morerows < num_rows
     /\ \A c \in Min(FreeCols)..(Min(FreeCols) + sp.morecols) : c \in FreeCols}

\* GridSection(name, param) has been constructed and parse() is called.
GridInit ==
  /\ IndentIdle
  /\ LayoutIdle
  /\ EmitIdle
  /\ UnitIdle
  /\ gstate = "call"
  /\ gexc = "none"
  /\ num_rows = 0
  /\ num_cols = 0
  /\ cell_row = 0
  /\ entry_i = 0
  /\ col_offset = 0
  /\ cell_map = <<>>
  /\ grid_data \in {GridDataInit(prm) : prm \in {NoName, "w1"}}
  /\ covered = <<>>
  /\ truth = EmptyDict
  /\ last_entry = NoEntry

\* Lines 437-441: docutils is missing and not required; the section is
\* left unparsed.
GridSkip ==
  /\ gstate = "call"
  /\ gstate' = "returned"
  /\ UNCHANGED <<gexc, num_rows, num_cols, cell_row, entry_i, col_offset,
                 cell_map, grid_data, covered, truth, last_entry>>
  /\ UNCHANGED <<indentVars, layoutVars, emitVars, unitVars>>

\* Lines 437-439: docutils is missing and required.
GridMissing ==
  /\ gstate = "call"
  /\ gstate' = "raised"
  /\ gexc' = "GridError"
  /\ UNCHANGED <<num_rows, num_cols, cell_row, entry_i, col_offset,
                 cell_map, grid_data, covered, truth, last_entry>>
  /\ UNCHANGED <<indentVars, layoutVars, emitVars, unitVars>>

\* Lines 444-461: docutils parsed the lines into a table of nr rows and nc
\* columns (no tbody: nothing to do, line 455).
GridBegin ==
  /\ gstate = "call"
  /\ \E nr \in 0..MaxRows, nc \in 1..MaxCols :
       /\ nr * nc <= MaxCells
       /\ num_rows' = nr
       /\ num_cols' = nc
       /\ cell_map' = CellMapInit(nr, nc)
       /\ covered' = CellMapInit(nr, nc)
  /\ gstate' = "rows"
  /\ UNCHANGED <<gexc, cell_row, entry_i, col_offset, grid_data, truth, last_entry>>
  /\ UNCHANGED <<indentVars, layoutVars, emitVars, unitVars>>

\* One entry of the current row is delivered and handled (lines 467-504).
Deliver(e) ==
  LET col == Min(FreeCols)
      res == ParseEntry(GridNow, cell_row, entry_i, e, num_cols)
  IN  /\ covered' = MarkCells(covered, cell_row, col,
                              e.morerows + 1, e.morecols + 1).map
      /\ truth' = IF e.name = NoPara THEN truth
                  ELSE Put(truth, e.name,
                           [row |-> cell_row, idx |-> entry_i, column |-> col,
                            after |-> last_entry])
      /\ last_entry' = [name |-> e.name, morecols |-> e.morecols, column |-> col]
      /\ cell_map' = res.cell_map
      /\ grid_data' = res.grid_data
      /\ col_offset' = res.col_offset
      /\ gexc' = res.exc
      /\ gstate' = IF res.exc = "none" THEN "rows" ELSE "raised"
      /\ entry_i' = entry_i + 1
      /\ UNCHANGED <<num_rows, num_cols, cell_row>>
      /\ UNCHANGED <<indentVars, layoutVars, emitVars, unitVars>>

InRow == gstate = "rows" /\ cell_row < num_rows

\* An entry with one paragraph: a widget name.
GridEntryNamed ==
  /\ InRow
  /\ FreeCols # {}
  /\ \E sp \in SpanChoices :
       Deliver([name |-> WidgetNames[Cardinality(DOMAIN truth) + 1],
                morecols |-> sp.morecols, morerows |-> sp.morerows])

\* An entry without a single paragraph: an empty cell.
GridEntryEmpty ==
  /\ InRow
  /\ FreeCols # {}
  /\ \E sp \in SpanChoices :
       Deliver([name |-> NoPara, morecols |-> sp.morecols, morerows |-> sp.morerows])

\* The entries of the row are exhausted: the next row (lines 464-466).
GridRowEnd ==
  /\ InRow
  /\ FreeCols = {}
  /\ cell_row' = cell_row + 1
  /\ entry_i' = 0
  /\ col_offset' = 0
  /\ last_entry' = NoEntry
  /\ UNCHANGED <<gstate, gexc, num_rows, num_cols, cell_map, grid_data, covered, truth>>
  /\ UNCHANGED <<indentVars, layoutVars, emitVars, unitVars>>

\* The rows are exhausted: parse returns.
GridReturn ==
  /\ gstate = "rows"
  /\ cell_row = num_rows
  /\ gstate' = "returned"
  /\ UNCHANGED <<gexc, num_rows, num_cols, cell_row, entry_i, col_offset,
                 cell_map, grid_data, covered, truth, last_entry>>
  /\ UNCHANGED <<indentVars, layoutVars, emitVars, unitVars>>

GridNext ==
  \/ GridSkip
  \/ GridMissing
  \/ GridBegin
  \/ GridEntryNamed
  \/ GridEntryEmpty
  \/ GridRowEnd
  \/ GridReturn

SpecGrid == GridInit /\ [][GridNext]_vars

\* ---------------------------------------- GridSection.parse: properties

\* The keys of grid_data that hold coordinates.
Assignments == {k \in DOMAIN grid_data : "row" \in DOMAIN grid_data[k]}

\* The table parsed had a named entry for each of its cells: no span, no
\* empty cell, all names distinct.
PlainTable ==
  /\ gstate = "returned"
  /\ Cardinality(DOMAIN truth) = num_rows * num_cols

\* C4: for a table of N rows and M columns with no spans and a distinct
\* widget name in every cell, exactly N*M coordinate assignments are
\* recorded, the i-th cell of the j-th row at row j and column i, none with
\* a rowspan or columnspan entry.
C4_PlainGrid ==
  PlainTable =>
    /\ Cardinality(Assignments) = num_rows * num_cols
    /\ Assignments = DOMAIN truth
    /\ \A n \in DOMAIN truth :
         /\ grid_data[n] = [row |-> truth[n].row, column |-> truth[n].idx]
         /\ truth[n].row \in 0..(num_rows - 1)
         /\ truth[n].idx \in 0..(num_cols - 1)

\* A plain table of at least two rows and two columns has been parsed.
C4_Witness ==
  /\ PlainTable
  /\ num_rows >= 2
  /\ num_cols >= 2
  /\ Cardinality(Assignments) >= 4

\* C5 (as claimed): a named entry that immediately follows, in its row, a
\* cell of origin column c declaring extra-columns k >= 1 (named or empty)
\* is recorded at column c + k + 1.
C5_AfterSpan ==
  gstate \in {"rows", "returned"} =>
    \A n \in DOMAIN truth :
      (/\ truth[n].after # NoEntry
       /\ truth[n].after.morecols >= 1
       /\ truth[n].column = truth[n].after.column + truth[n].after.morecols + 1)
      => grid_data[n].column
           = truth[n].after.column + truth[n].after.morecols + 1

\* The same for the tables whose cells all name a widget.
C5_AfterNamedSpan ==
  gstate \in {"rows", "returned"} =>
    \A n \in DOMAIN truth :
      (/\ truth[n].after # NoEntry
       /\ truth[n].after.name # NoPara
       /\ truth[n].after.morecols >= 1
       /\ truth[n].column = truth[n].after.column + truth[n].after.morecols + 1)
      => grid_data[n].column
           = truth[n].after.column + truth[n].after.morecols + 1

\* -------------------------------------------------- parse_layout_spec

\* The state of a name no statement has bound yet (sect_name before the
\* first header that names a section).
Unbound == "<unbound>"

\* The exceptions derived from LayoutError (lines 28-41).
IsLayoutError(e) ==
  e.type \in {"LayoutError", "WidgetError", "MenuError", "GridError",
              "ParameterError"}

\* A line of the layout text, after comment removal and rstrip: what
\* section_re, layout_re, widget_re and the table parser make of it.
\*   header: `[names...]`, names being the whitespace-separated words
\*   widget: `name(Frame)` with an optional `<mgr>` or `<mgr|row=0>`
\*   border: `== ==`, the border of a two-column simple table
\*   row:    `w1 w2`, a row of that table
\*   text:   `x`, none of these
TextLine(kind, names, indent, name, mgr, params) ==
  [kind |-> kind, names |-> names, indent |-> indent, name |-> name,
   mgr |-> mgr, params |-> params]

HeaderLine(names) == TextLine("header", names, 0, NoName, NoName, EmptyDict)

WidgetLine(indent, name, mgr, params) ==
  TextLine("widget", <<>>, indent, name, mgr, params)

BorderLine == TextLine("border", <<>>, 0, NoName, NoName, EmptyDict)

RowLine == TextLine("row", <<"w1", "w2">>, 0, NoName, NoName, EmptyDict)

\* The row `w1 w9`: w9 names no widget of the trees below.
RowOther == TextLine("row", <<"w1", "w9">>, 0, NoName, NoName, EmptyDict)

JunkLine == TextLine("text", <<"x">>, 0, NoName, NoName, EmptyDict)

\* Section.__init__, WidgetSection.__init__, MenuSection.__init__ and
\* GridSection.__init__ (lines 223-226, 312-314, 579-581, 412-415): the
\* class follows from the name (lines 729-736).
NewSection(name, param) ==
  [name |-> name, param |-> param, lines |-> <<>>,
   nodes |-> <<>>, children |-> <<>>, specs |-> <<>>,
   grid_data |-> IF name = "grid" THEN GridDataInit(param) ELSE EmptyDict]

\* Lines 704-706.
SplitStart ==
  [sections |-> <<>>, cur |-> NewSection("widgets", NoName),
   sect_name |-> Unbound, sect_param |-> Unbound, exc |-> NoExc]

\* Lines 717-740 for one line: a header names the next section only if it
\* holds a word (line 721); line 729 reads sect_name whatever line 721 found.
SplitLine(sp, l) ==
  IF l.kind = "header"
    THEN LET nm == IF Len(l.names) > 0 THEN l.names[1] ELSE sp.sect_name
             pr == IF Len(l.names) > 1 THEN l.names[2]
                   ELSE IF Len(l.names) > 0 THEN NoName ELSE sp.sect_param
         IN  IF nm = Unbound
               THEN [sp EXCEPT !.sections = Append(@, sp.cur),
                               !.exc = [type |-> "UnboundLocalError"]]
               ELSE [sections |-> Append(sp.sections, sp.cur),
                     cur |-> NewSection(nm, pr),
                     sect_name |-> nm, sect_param |-> pr, exc |-> sp.exc]
    ELSE [sp EXCEPT !.cur.lines = Append(@, l)]

RECURSIVE SplitFrom(_, _, _)
SplitFrom(sp, ls, i) ==
  IF i > Len(ls) \/ sp.exc # NoExc THEN sp
  ELSE SplitFrom(SplitLine(sp, ls[i]), ls, i + 1)

\* Lines 704-749: the sections of the text, the empty ones removed.
SplitSections(ls) ==
  LET sp == SplitFrom(SplitStart, ls, 1)
  IN  IF sp.exc # NoExc THEN [sections |-> <<>>, exc |-> sp.exc]
      ELSE [sections |-> SelectSeq(Append(sp.sections, sp.cur),
                                   LAMBDA sec : Len(sec.lines) > 0),
            exc |-> NoExc]

\* WidgetSpec.__init__ (lines 255-261) on what parse_widget_spec takes from
\* a widget line (lines 325-349).
WidgetSpec(l) ==
  [name |-> l.name, kind |-> "Frame", params |-> "",
   layout_mgr |-> l.mgr, layout_params |-> l.params]

\* The layout part of a widget line, as written.
LayoutText(l) ==
  IF l.mgr = NoName THEN ""
  ELSE "<" \o l.mgr
         \o (IF "row" \in DOMAIN l.params THEN "|row=" \o l.params["row"].str ELSE "")
         \o ">"

\* The characters of a menu label: letters, the underline mark, a quote
\* and a blank.
LabelChars == {"A", "b", "&", "'", " "}

\* The quotes of line 525.
Quotes == {"'", "\""}

\* Lines 525-526: a label of more than two characters that begins and ends
\* with the same quote loses both.
StripQuotes(label) ==
  IF Len(label) > 2 /\ label[1] = Last(label) /\ label[1] \in Quotes
    THEN SubSeq(label, 2, Len(label) - 1)
    ELSE label

\* label.find('&') of line 528: the 0-based place of the first '&', -1 if
\* there is none.
FindAmp(label) ==
  IF \E i \in 1..Len(label) : label[i] = "&"
    THEN Min({i \in 1..Len(label) : label[i] = "&"}) - 1
    ELSE -1

\* Lines 528-536: self.label, the '&' found taken out of a label longer
\* than one character.
StoredLabel(label) ==
  LET u == FindAmp(label)
  IN  IF u >= 0 /\ Len(label) > 1
        THEN SubSeq(label, 1, u) \o SubSeq(label, u + 2, Len(label))
        ELSE label

\* MenuSpec.__init__ (lines 519-536) on the characters of a label: the
\* label and underline attributes.
MenuLabel(label) ==
  [label |-> StoredLabel(StripQuotes(label)),
   underline |-> FindAmp(StripQuotes(label))]

\* The characters of the labels that an identifier may hold (\w).
WordChars == {"A", "B", "b", "_", "1"}

Digits == {"1"}

\* prop_label (line 541), re.sub(r'[\W]|^(?=\d)', '_', label): every
\* character that is not a word character becomes '_', and a '_' is put
\* before a leading digit.
PropLabel(label) ==
  (IF label # <<>> /\ label[1] \in Digits THEN <<"_">> ELSE <<>>)
    \o [i \in 1..Len(label) |-> IF label[i] \in WordChars THEN label[i] ELSE "_"]

\* The string of a sequence of characters.
RECURSIVE Text(_)
Text(chars) == IF chars = <<>> THEN "" ELSE Head(chars) \o Text(Tail(chars))

\* repr(v) of lines 569 and 637 for a string of printable characters: in
\* double quotes when it holds a ' and no ", in single quotes otherwise; the
\* quote used and the backslash are escaped by a backslash.
Repr(chars) ==
  LET q == IF "'" \in Range(chars) /\ "\"" \notin Range(chars) THEN "\"" ELSE "'"
  IN  q \o Text([i \in 1..Len(chars) |->
                   IF chars[i] \in {q, "\\"} THEN "\\" \o chars[i] ELSE chars[i]])
        \o q

\* A line of a menu section, as menu_sep_re and menu_re take it apart
\* (lines 588-601): a separator `----`, or an item with its mark (`*`,
\* `[]` or none), its label and the rest of the line.
MenuLine(kind, indent, mark, label, params) ==
  [kind |-> kind, indent |-> indent, mark |-> mark, label |-> label,
   params |-> params]

\* parse_menu_item (lines 584-603) and MenuSpec.__init__ (lines 519-541):
\* the first word is the label, the rest the params; prop_label is the
\* label with `_` for each non-word character (line 541). `----` makes a
\* separator, `&` an underline, and no line of these has either.
\* label_repr is repr(self.label), which lines 569 and 637 put into the
\* code; it is taken here, where the characters of the label are at hand
\* (the names of widgets and the borders hold no quote and no backslash).
MenuSpec(l) ==
  CASE l.kind = "widget" ->
         [label |-> l.name \o "(Frame)", prop_label |-> l.name \o "_Frame_",
          label_repr |-> "'" \o l.name \o "(Frame)'",
          kind |-> "normal", underline |-> -1, params |-> LayoutText(l)]
    [] l.kind = "border" ->
         [label |-> "==", prop_label |-> "__", label_repr |-> "'=='",
          kind |-> "normal", underline |-> -1, params |-> "=="]
    [] l.kind = "sep" ->
         [label |-> "", prop_label |-> "", label_repr |-> "''",
          kind |-> "separator", underline |-> -1, params |-> ""]
    [] l.kind = "item" ->
         [label |-> Text(MenuLabel(l.label).label),
          prop_label |-> Text(PropLabel(MenuLabel(l.label).label)),
          label_repr |-> Repr(MenuLabel(l.label).label),
          kind |-> CASE l.mark = "*" -> "radio"
                     [] l.mark = "[]" -> "check"
                     [] OTHER -> "normal",
          underline |-> MenuLabel(l.label).underline,
          params |-> l.params]
    [] OTHER ->
         [label |-> l.names[1], prop_label |-> l.names[1],
          label_repr |-> "'" \o l.names[1] \o "'",
          kind |-> "normal", underline |-> -1,
          params |-> IF Len(l.names) > 1 THEN l.names[2] ELSE ""]

\* parse_indented_list (lines 96-115) from line i on; parse_func returns
\* for the lines of the kinds given and raises err for the others.
RECURSIVE ScanAll(_, _, _, _, _)
ScanAll(st, ls, i, kinds, err) ==
  IF i > Len(ls) \/ st.exc # "none" THEN st
  ELSE IF ls[i].kind \notin kinds THEN [st EXCEPT !.exc = err]
  ELSE ScanAll(ScanLine(st, i, ls[i].indent), ls, i + 1, kinds, err)

\* parse_indented_list(lines, parse_func).
ParseIndentedList(ls, kinds, err) ==
  ScanAll(IndentStart(Len(ls)), ls, 1, kinds, err)

\* WidgetSection.parse (lines 354-362): a line widget_re does not match
\* raises WidgetError (line 351).
ParseWidgets(sec) ==
  LET st == ParseIndentedList(sec.lines, {"widget"}, "WidgetError")
  IN  [sec |-> [sec EXCEPT !.nodes = st.nodes, !.children = st.children,
                           !.specs = [i \in 1..Len(sec.lines) |->
                                        WidgetSpec(sec.lines[i])]],
       exc |-> IF st.exc = "none" THEN NoExc ELSE [type |-> st.exc]]

\* MenuSection.parse (lines 643-644): parse_menu_item takes any line.
ParseMenu(sec) ==
  LET st == ParseIndentedList(sec.lines, {"widget", "border", "row", "text",
                                          "item", "sep"},
                              "MenuError")
  IN  [sec |-> [sec EXCEPT !.nodes = st.nodes, !.children = st.children,
                           !.specs = [i \in 1..Len(sec.lines) |->
                                        MenuSpec(sec.lines[i])]],
       exc |-> IF st.exc = "none" THEN NoExc ELSE [type |-> st.exc]]

\* What docutils makes of the lines of a grid section (lines 444-458; the
\* lines are joined without blank lines, line 739 drops those): a table if
\* they are a border, rows and a border, and no table otherwise.
DocTable(ls) ==
  IF /\ Len(ls) >= 3
     /\ ls[1].kind = "border"
     /\ Last(ls).kind = "border"
     /\ \A i \in 2..(Len(ls) - 1) : ls[i].kind = "row"
    THEN [tbody |-> TRUE, cols |-> Len(ls[2].names),
          rows |-> [j \in 1..(Len(ls) - 2) |-> ls[j + 1].names]]
    ELSE [tbody |-> FALSE, cols |-> 1, rows |-> <<>>]

\* The loops of lines 464-504 from entry i of row j on (both 0-based);
\* the entries of these tables span nothing.
RECURSIVE GridRows(_, _, _, _, _)
GridRows(gs, rows, j, i, ncols) ==
  IF gs.exc # "none" \/ j >= Len(rows) THEN gs
  ELSE IF i >= Len(rows[j + 1])
    THEN GridRows([gs EXCEPT !.col_offset = 0], rows, j + 1, 0, ncols)
  ELSE GridRows(ParseEntry(gs, j, i,
                           [name |-> rows[j + 1][i + 1],
                            morecols |-> 0, morerows |-> 0], ncols),
                rows, j, i + 1, ncols)

\* GridSection.parse (lines 418-504).
ParseGrid(sec, have, required) ==
  IF ~have
    THEN IF required
           THEN [sec |-> sec, exc |-> [type |-> "GridError"]]
           ELSE [sec |-> sec, exc |-> NoExc]
    ELSE LET t == DocTable(sec.lines)
             gs == GridRows([cell_map |-> CellMapInit(Len(t.rows), t.cols),
                             grid_data |-> sec.grid_data,
                             col_offset |-> 0, exc |-> "none"],
                            t.rows, 0, 0, t.cols)
         IN  IF ~t.tbody THEN [sec |-> sec, exc |-> NoExc]
             ELSE [sec |-> [sec EXCEPT !.grid_data = gs.grid_data],
                   exc |-> IF gs.exc = "none" THEN NoExc
                           ELSE [type |-> gs.exc]]

\* s.parse(class_name, require_docutils=...) of line 753, by class;
\* Section.parse (lines 228-236) does nothing.
ParseSection(sec, have, required) ==
  CASE sec.name = "widgets" -> ParseWidgets(sec)
    [] sec.name = "menu"    -> ParseMenu(sec)
    [] sec.name = "grid"    -> ParseGrid(sec, have, required)
    [] OTHER                -> [sec |-> sec, exc |-> NoExc]

\* Lines 752-753 from section i on: the first exception leaves the loop.
RECURSIVE ParseFrom(_, _, _, _)
ParseFrom(secs, i, have, required) ==
  IF i > Len(secs) THEN [sections |-> secs, exc |-> NoExc]
  ELSE LET r == ParseSection(secs[i], have, required)
       IN  IF r.exc # NoExc THEN [sections |-> secs, exc |-> r.exc]
           ELSE ParseFrom([secs EXCEPT ![i] = r.sec], i + 1, have, required)

\* --------------------------------------------- apply_grid_attributes

\* A layout parameter's value: text taken from the widget line
\* (parse_params keeps the text, line 184) or an int set by the merge.
StrVal(t) == [str |-> t]

IntVal(n) == [int |-> n]

DigitText == <<"0", "1", "2", "3", "4", "5", "6", "7", "8", "9">>

\* int(v) of line 819.
ToInt(v) ==
  IF "int" \in DOMAIN v THEN v.int
  ELSE CHOOSE n \in 0..9 : DigitText[n + 1] = v.str

\* '{}'.format(v) of line 294.
Format(v) == IF "int" \in DOMAIN v THEN DigitText[v.int + 1] ELSE v.str

\* index_widgets (lines 190-198): a later widget of the same name
\* replaces the earlier one.
RECURSIVE index_widgets(_, _, _)
index_widgets(sec, widgets, index) ==
  IF widgets = <<>> THEN index
  ELSE LET w == Head(widgets)
           here == Put(index, sec.specs[w].name, w)
       IN  index_widgets(sec, Tail(widgets),
                         index_widgets(sec, sec.children[w], here))

\* The key of the top level grid (line 799).
TopKey == "<top>"

\* Lines 794-799: gindex after the grids from i on; the list of a pair is
\* named by reference (0: widget_sec.widgets, k: the children of node k).
RECURSIVE GridIndex(_, _, _, _)
GridIndex(grids, i, index, gindex) ==
  IF i > Len(grids) THEN gindex
  ELSE LET g == grids[i].grid_data
           c == g[ContainerKey].container
       IN  GridIndex(grids, i + 1, index,
             IF c \in DOMAIN index
               THEN Put(gindex, c, [list |-> index[c], grid_data |-> g])
             ELSE IF c = NoName
               THEN Put(gindex, TopKey, [list |-> 0, grid_data |-> g])
             ELSE gindex)

\* A slip: every widget of the section taken for a child of the container.
GriddedAll(sec, gindex, k) == DOMAIN sec.specs

\* The widgets of the lists gindex holds. The lists of two entries are
\* different lists of the tree, so the order in which itervalues() visits
\* the entries makes no difference to the loops below.
Gridded(sec, gindex, k) == Range(ListAt(sec, gindex[k].list))

\* Lines 802-805: an unset manager becomes 'grid'.
SetGridManagers(sec, gindex) ==
  [sec EXCEPT !.specs =
     [c \in DOMAIN sec.specs |->
        IF /\ \E k \in DOMAIN gindex : c \in Gridded(sec, gindex, k)
           /\ sec.specs[c].layout_mgr = NoName
          THEN [sec.specs[c] EXCEPT !.layout_mgr = "grid"]
          ELSE sec.specs[c]]]

\* dict.update of line 813 with the coordinates of a table cell.
Update(params, grid_params) ==
  [x \in DOMAIN params \cup DOMAIN grid_params |->
     IF x \in DOMAIN grid_params THEN IntVal(grid_params[x]) ELSE params[x]]

\* Lines 808-813: the coordinates of the table, for widgets managed by grid.
ApplyTables(sec, gindex) ==
  [sec EXCEPT !.specs =
     [c \in DOMAIN sec.specs |->
        LET ks == {k \in DOMAIN gindex :
                     /\ c \in Gridded(sec, gindex, k)
                     /\ sec.specs[c].name \in DOMAIN gindex[k].grid_data
                     /\ sec.specs[c].layout_mgr = "grid"}
        IN  IF ks = {} THEN sec.specs[c]
            ELSE [sec.specs[c] EXCEPT !.layout_params =
                    Update(@, gindex[CHOOSE k \in ks : TRUE]
                                .grid_data[sec.specs[c].name])]]]

\* The row values of line 819.
RowsOf(specs, list) ==
  {ToInt(specs[c].layout_params["row"]) :
     c \in {x \in Range(list) : "row" \in DOMAIN specs[x].layout_params}}

\* A one-place slip: the row counter of line 828 not advanced.
RECURSIVE AutoPlaceSameRow(_, _, _, _)
AutoPlaceSameRow(specs, list, i, next_row) ==
  IF i > Len(list) THEN specs
  ELSE LET c == list[i]
           p1 == IF "row" \in DOMAIN specs[c].layout_params
                   THEN specs[c].layout_params
                   ELSE Put(specs[c].layout_params, "row", IntVal(next_row))
           p2 == IF "column" \in DOMAIN p1 THEN p1
                 ELSE Put(p1, "column", IntVal(0))
       IN  IF specs[c].layout_mgr = "grid"
             THEN AutoPlaceSameRow([specs EXCEPT ![c].layout_params = p2],
                                   list, i + 1, next_row)
             ELSE AutoPlaceSameRow(specs, list, i + 1, next_row)

\* Lines 824-830 from child i of the list on.
RECURSIVE AutoPlace(_, _, _, _)
AutoPlace(specs, list, i, next_row) ==
  IF i > Len(list) THEN specs
  ELSE LET c == list[i]
           need == "row" \notin DOMAIN specs[c].layout_params
           p1 == IF need THEN Put(specs[c].layout_params, "row", IntVal(next_row))
                 ELSE specs[c].layout_params
           p2 == IF "column" \in DOMAIN p1 THEN p1
                 ELSE Put(p1, "column", IntVal(0))
       IN  IF specs[c].layout_mgr = "grid"
             THEN AutoPlace([specs EXCEPT ![c].layout_params = p2], list, i + 1,
                            IF need THEN next_row + 1 ELSE next_row)
             ELSE AutoPlace(specs, list, i + 1, next_row)

\* Lines 816-830 for the entries of gindex named by keys: max() of no row
\* is the ValueError that line 821 turns into a LayoutError.
RECURSIVE PlaceAll(_, _, _)
PlaceAll(sec, gindex, keys) ==
  IF keys = {} THEN [sec |-> sec, exc |-> NoExc]
  ELSE LET k == CHOOSE x \in keys : TRUE
           list == ListAt(sec, gindex[k].list)
           rows == RowsOf(sec.specs, list)
       IN  IF rows = {}
             THEN [sec |-> sec,
                   exc |-> [type |-> "LayoutError", msg |-> "rows"]]
             ELSE PlaceAll([sec EXCEPT !.specs =
                              AutoPlace(@, list, 1, Max(rows) + 1)],
                           gindex, keys \ {k})

\* apply_grid_attributes(grids, widget_sec) (lines 781-830).
apply_grid_attributes(grids, widget_sec) ==
  LET index == index_widgets(widget_sec, widget_sec.nodes, EmptyDict)
      gindex == GridIndex(grids, 1, index, EmptyDict)
      tabled == ApplyTables(SetGridManagers(widget_sec, gindex), gindex)
  IN  PlaceAll(tabled, gindex, DOMAIN gindex)

\* ------------------------------------- create_layout_method: validation

\* index_containers (lines 200-210): the lists that hold widgets, keyed by
\* their owner (0 for parent=None).
RECURSIVE index_containers(_, _, _, _)
index_containers(sec, widgets, index, parent) ==
  LET RECURSIVE Each(_, _)
      Each(i, ix) ==
        IF i > Len(widgets) THEN ix
        ELSE IF Len(sec.children[widgets[i]]) > 0
          THEN Each(i + 1, index_containers(sec, sec.children[widgets[i]],
                                            ix, widgets[i]))
        ELSE Each(i + 1, ix)
  IN  Each(1, Put(index, parent, widgets))

\* A slip: the managers as they are, an unset one apart from 'pack'.
unique_managers_raw(sec, group) ==
  {sec.specs[c].layout_mgr : c \in Range(group)}

\* Lines 884-885: the managers of a group, an unset one counted as 'pack'.
unique_managers(sec, group) ==
  {IF sec.specs[c].layout_mgr = NoName THEN "pack"
   ELSE sec.specs[c].layout_mgr : c \in Range(group)}

\* The containers line 886 objects to.
Mismatched(sec) ==
  LET containers == index_containers(sec, sec.nodes, EmptyDict, 0)
  IN  {p \in DOMAIN containers :
         /\ Len(containers[p]) > 0
         /\ Cardinality(unique_managers(sec, containers[p])) # 1}

\* The LayoutError of lines 887-889 for container p.
MismatchError(sec, p) ==
  [type |-> "LayoutError", msg |-> "mismatch",
   container |-> IF p = 0 THEN "self" ELSE sec.specs[p].name,
   managers |-> unique_managers(sec, ListAt(sec, p))]

\* ------------------------------------------------------ code generation

\* A generated line whose text is fixed.
Line(text) == [line |-> text]

\* A generated call whose keyword arguments come from iterating a dict
\* (lines 294, 569, 637): the order of the arguments is the dict's, which
\* the model leaves open; rest is the text appended after them.
Call(target, args, rest) == [call |-> target, args |-> args, rest |-> rest]

\* The names of guidoc's globals that hold a module with the widget
\* classes (line 12: import Tkinter as tk).
TkGlobals == {"tk"}

\* str.rstrip('.') of line 277, for the prefixes passed.
Rstrip(prefix) == IF prefix = "tk." THEN "tk" ELSE prefix

\* Lines 272-283: the class name, qualified if the prefix names a module
\* that has the class.
FullWidget(spec, lib_prefix) ==
  IF Rstrip(lib_prefix) \in TkGlobals
    THEN Rstrip(lib_prefix) \o "." \o spec.kind
    ELSE spec.kind

\* Line 290: the statement that creates the widget.
ConstructStmt(spec, parent, lib_prefix) ==
  Line("self." \o spec.name \o " = " \o FullWidget(spec, lib_prefix) \o "("
       \o (IF spec.params = "" THEN parent ELSE parent \o ", " \o spec.params)
       \o ")")

\* A slip: the manager used as it is, unset or not.
LayoutStmtNoDefault(spec) ==
  Call("self." \o spec.name \o "." \o spec.layout_mgr,
       {k \o "=" \o Format(spec.layout_params[k]) :
          k \in DOMAIN spec.layout_params}, "")

\* Lines 293-295: the statement that configures the layout manager.
LayoutStmt(spec) ==
  Call("self." \o spec.name \o "."
         \o (IF spec.layout_mgr # NoName THEN spec.layout_mgr ELSE "pack"),
       {k \o "=" \o Format(spec.layout_params[k]) :
          k \in DOMAIN spec.layout_params}, "")

\* WidgetSpec.code (lines 263-295) for a prefix that is a string.
WidgetCode(spec, parent, lib_prefix) ==
  <<ConstructStmt(spec, parent, lib_prefix), LayoutStmt(spec)>>

\* WidgetSection.generate_widget_code (lines 364-382).
RECURSIVE generate_widget_code(_, _, _, _)
generate_widget_code(sec, widgets, parent, lib_prefix) ==
  IF widgets = <<>> THEN <<>>
  ELSE LET w == Head(widgets)
       IN  WidgetCode(sec.specs[w], parent, lib_prefix)
             \o generate_widget_code(sec, sec.children[w],
                                     "self." \o sec.specs[w].name, lib_prefix)
             \o generate_widget_code(sec, Tail(widgets), parent, lib_prefix)

\* WidgetSection.code (lines 384-396).
WidgetSectionCode(sec, parent, lib_prefix) ==
  <<Line("# Widgets")>> \o generate_widget_code(sec, sec.nodes, parent, lib_prefix)

\* The keyword arguments of lines 562-569 and 630-637.
LabelArgs(spec) ==
  {"label=" \o spec.label_repr}
    \cup (IF spec.underline >= 0
            THEN {"underline=" \o DigitText[spec.underline + 1]} ELSE {})

\* A slip: add_command whatever the kind (lines 554-557 left out).
MenuItemCodePlain(spec, parent) ==
  IF spec.kind = "separator"
    THEN Line("self." \o parent \o ".add_separator()")
    ELSE Call("self." \o parent \o ".add_command", LabelArgs(spec),
              IF spec.params = "" THEN "" ELSE ", " \o spec.params)

\* MenuSpec.code (lines 547-570), for an item without children.
MenuItemCode(spec, parent) ==
  IF spec.kind = "separator"
    THEN Line("self." \o parent \o ".add_separator()")
    ELSE Call("self." \o parent \o "."
                \o (CASE spec.kind = "check" -> "add_checkbutton"
                      [] spec.kind = "radio" -> "add_radiobutton"
                      [] OTHER -> "add_command"),
              LabelArgs(spec),
              IF spec.params = "" THEN "" ELSE ", " \o spec.params)

\* MenuSection.generate_menu_code (lines 607-639); prefix is the prefix
\* as lines 611-614 leave it.
RECURSIVE generate_menu_code(_, _, _, _, _)
generate_menu_code(sec, items, menu_name, parent, prefix) ==
  IF items = <<>> THEN <<>>
  ELSE LET i == Head(items)
           spec == sec.specs[i]
           next_parent == menu_name \o spec.prop_label
           rest == generate_menu_code(sec, Tail(items), menu_name, parent, prefix)
       IN  IF Len(sec.children[i]) > 0
             THEN <<Line("self." \o next_parent \o " = " \o prefix
                         \o "Menu(self." \o parent \o ", tearoff=0)")>>
                  \o generate_menu_code(sec, sec.children[i], menu_name,
                                        next_parent, prefix)
                  \o <<Call("self." \o parent \o ".add_cascade", LabelArgs(spec),
                            ", menu=self." \o next_parent)>>
                  \o rest
             ELSE <<MenuItemCode(spec, parent)>> \o rest

\* Lines 655-662: the prefix of the Menu class.
MenuPrefix(lib_prefix) ==
  IF lib_prefix \notin TkGlobals THEN "" ELSE lib_prefix \o "."

\* MenuSection.code (lines 646-681).
MenuSectionCode(sec, parent, lib_prefix) ==
  LET prefix == MenuPrefix(lib_prefix)
      menu_name == IF sec.param \notin {NoName, ""} THEN sec.param ELSE "menubar"
  IN  <<Line("# Menu: " \o menu_name),
        Line("self." \o menu_name \o " = " \o prefix \o "Menu(" \o parent
             \o ", tearoff=0)")>>
      \o generate_menu_code(sec, sec.nodes, menu_name, menu_name, prefix)
      \o (IF menu_name = "menubar"
            THEN <<Line("if isinstance(self, " \o prefix \o "Toplevel):"),
                   Line("  self.config(menu=self." \o menu_name \o ")"),
                   Line("elif isinstance(self.master, " \o prefix
                        \o "Tk) or isinstance(self.master, " \o prefix
                        \o "Toplevel):"),
                   Line("  self.master.config(menu=self." \o menu_name \o ")")>>
            ELSE <<>>)

\* Lines 895-898 from menu section i on.
RECURSIVE MenusCode(_, _, _, _)
MenusCode(menus, i, parent, lib_prefix) ==
  IF i > Len(menus) THEN <<>>
  ELSE <<Line("")>> \o MenuSectionCode(menus[i], parent, lib_prefix)
         \o MenusCode(menus, i + 1, parent, lib_prefix)

\* ------------------------------------------------ create_layout_method

\* The widget lines of the specifications with several sections: w1 or w2
\* at indent 0 or 1, plain or with `<grid|row=0>`.
SectionWidgetLines ==
  {WidgetLine(i, n, o.mgr, o.params) :
     i \in {0, 1}, n \in {"w1", "w2"},
     o \in {[mgr |-> NoName, params |-> EmptyDict],
            [mgr |-> "grid", params |-> Put(EmptyDict, "row", StrVal("0"))]}}

\* Their headers: `[ ]`, `[widgets]`, `[grid]`, `[grid w1]`, `[menu]`, `[misc]`.
SectionHeaders ==
  {HeaderLine(ns) : ns \in {<<>>, <<"widgets">>, <<"grid">>, <<"grid", "w1">>,
                            <<"menu">>, <<"misc">>}}

\* Whether docutils is installed and whether it is required: every case
\* for a text with a grid header, one case for a text without (nothing
\* reads either then).
DocutilsModes(ls) ==
  IF \E i \in 1..Len(ls) : ls[i].kind = "header" /\ "grid" \in Range(ls[i].names)
    THEN BOOLEAN \X BOOLEAN
    ELSE {<<TRUE, FALSE>>}

\* Specifications of n lines: headers, widget lines and `x`.
SectionInputs(n) ==
  [1..n -> SectionHeaders \cup SectionWidgetLines \cup {JunkLine}]

\* What may precede them: nothing, or the menu section `[menu]`, `x`.
LeadingSections == {<<>>, <<HeaderLine(<<"menu">>), JunkLine>>}

\* The widget lines of the specifications with one widget tree; line k
\* names the widget WidgetNames[k].
TreeWidgetLines(k) ==
  {WidgetLine(i, WidgetNames[k], o.mgr, o.params) :
     i \in {0, 1},
     o \in {[mgr |-> NoName, params |-> EmptyDict],
            [mgr |-> "pack", params |-> EmptyDict],
            [mgr |-> "grid", params |-> EmptyDict],
            [mgr |-> "grid", params |-> Put(EmptyDict, "row", StrVal("0"))]}}

\* The grid sections that may follow the tree: none, or a one-row table
\* (`w1 w2` or `w1 w9`) for the top level or for the children of w1.
TreeGrids ==
  {<<>>} \cup {<<HeaderLine(ns), BorderLine, row, BorderLine>> :
                 ns \in {<<"grid">>, <<"grid", "w1">>},
                 row \in {RowLine, RowOther}}

\* The texts of n widget lines.
RECURSIVE TreeLines(_)
TreeLines(n) ==
  IF n = 0 THEN {<<>>}
  ELSE {Append(ws, l) : ws \in TreeLines(n - 1), l \in TreeWidgetLines(n)}

\* The default of the argument parent (line 833).
DefaultParent == "self"

\* find_tkinter_name() (lines 119-132): the name Tkinter is imported under.
LibPrefix == "tk"

\* create_layout_method(layout, method_name, require_docutils=...) is
\* called: with a text of up to MaxSpecLines headers, widget lines and `x`
\* (after a leading menu section or not), or
\* with a tree of 1..MaxWidgets widget lines and an optional grid section
\* (docutils installed).
LayoutInit ==
  /\ IndentIdle
  /\ GridIdle
  /\ EmitIdle
  /\ UnitIdle
  /\ \/ \E n \in 0..MaxSpecLines : \E ls \in SectionInputs(n) :
          \E m \in DocutilsModes(ls) : \E pre \in LeadingSections :
            /\ layout = pre \o ls
            /\ have_docutils = m[1]
            /\ require_docutils = m[2]
     \/ \E n \in 1..MaxWidgets : \E ws \in TreeLines(n) : \E g \in TreeGrids :
          /\ layout = ws \o g
          /\ have_docutils = TRUE
          /\ require_docutils = FALSE
  /\ lstate = "called"
  /\ lexc = NoExc
  /\ sections = <<>>
  /\ method_body = <<>>

\* Lines 853-854 and 872.
Named(secs, name) == SelectSeq(secs, LAMBDA sec : sec.name = name)

\* A slip: `> 2` for the `> 1` of line 862.
CountCheckTwo(widgets, menus) ==
  IF Len(widgets) = 0 /\ Len(menus) = 0
    THEN [type |-> "LayoutError", msg |-> "missing"]
  ELSE IF Len(widgets) > 2
    THEN [type |-> "LayoutError", msg |-> "multiple"]
  ELSE NoExc

\* Lines 860-864: the exception raised for the numbers of sections, if any.
CountCheck(widgets, menus) ==
  IF Len(widgets) = 0 /\ Len(menus) = 0
    THEN [type |-> "LayoutError", msg |-> "missing"]
  ELSE IF Len(widgets) > 1
    THEN [type |-> "LayoutError", msg |-> "multiple"]
  ELSE NoExc

\* The place of widgets[0] in sections.
WidgetSecAt(secs) == Min({i \in 1..Len(secs) : secs[i].name = "widgets"})

\* An exception leaves create_layout_method.
Raise(e) ==
  /\ lstate' = "raised"
  /\ lexc' = e
  /\ UNCHANGED <<layout, have_docutils, require_docutils, sections, method_body>>
  /\ UNCHANGED <<indentVars, gridVars, emitVars, unitVars>>

\* Lines 704-749 of parse_layout_spec: the text is split into sections.
LayoutSplit ==
  /\ lstate = "called"
  /\ SplitSections(layout).exc = NoExc
  /\ sections' = SplitSections(layout).sections
  /\ lstate' = "split"
  /\ UNCHANGED <<layout, have_docutils, require_docutils, lexc, method_body>>
  /\ UNCHANGED <<indentVars, gridVars, emitVars, unitVars>>

\* Line 729 reads sect_name before any header has set it.
LayoutSplitRaises ==
  /\ lstate = "called"
  /\ SplitSections(layout).exc # NoExc
  /\ Raise(SplitSections(layout).exc)

\* Lines 752-755: every section is parsed.
LayoutParse ==
  /\ lstate = "split"
  /\ ParseFrom(sections, 1, have_docutils, require_docutils).exc = NoExc
  /\ sections' = ParseFrom(sections, 1, have_docutils, require_docutils).sections
  /\ lstate' = "parsed"
  /\ UNCHANGED <<layout, have_docutils, require_docutils, lexc, method_body>>
  /\ UNCHANGED <<indentVars, gridVars, emitVars, unitVars>>

\* Line 753: the parse of a section raises.
LayoutParseRaises ==
  /\ lstate = "split"
  /\ ParseFrom(sections, 1, have_docutils, require_docutils).exc # NoExc
  /\ Raise(ParseFrom(sections, 1, have_docutils, require_docutils).exc)

\* Lines 860-864.
LayoutCountRaises ==
  /\ lstate = "parsed"
  /\ CountCheck(Named(sections, "widgets"), Named(sections, "menu")) # NoExc
  /\ Raise(CountCheck(Named(sections, "widgets"), Named(sections, "menu")))

\* Lines 868-875: the grids are merged into the widget section.
LayoutMerge ==
  /\ lstate = "parsed"
  /\ CountCheck(Named(sections, "widgets"), Named(sections, "menu")) = NoExc
  /\ Len(Named(sections, "widgets")) = 1
  /\ LET r == apply_grid_attributes(Named(sections, "grid"),
                                    sections[WidgetSecAt(sections)])
     IN  /\ r.exc = NoExc
         /\ sections' = [sections EXCEPT ![WidgetSecAt(sections)] = r.sec]
  /\ lstate' = "merged"
  /\ UNCHANGED <<layout, have_docutils, require_docutils, lexc, method_body>>
  /\ UNCHANGED <<indentVars, gridVars, emitVars, unitVars>>

\* Line 821: a grid-bound list without any row.
LayoutMergeRaises ==
  /\ lstate = "parsed"
  /\ CountCheck(Named(sections, "widgets"), Named(sections, "menu")) = NoExc
  /\ Len(Named(sections, "widgets")) = 1
  /\ LET r == apply_grid_attributes(Named(sections, "grid"),
                                    sections[WidgetSecAt(sections)])
     IN  /\ r.exc # NoExc
         /\ Raise(r.exc)

\* Lines 882-889: the first container found with two managers is reported;
\* the order of containers.iteritems() decides which one that is.
LayoutMismatch ==
  /\ lstate = "merged"
  /\ \E p \in Mismatched(sections[WidgetSecAt(sections)]) :
       Raise(MismatchError(sections[WidgetSecAt(sections)], p))

\* Lines 882-892: no container is objected to; the widget code.
LayoutWidgets ==
  /\ lstate = "merged"
  /\ Mismatched(sections[WidgetSecAt(sections)]) = {}
  /\ method_body' = WidgetSectionCode(sections[WidgetSecAt(sections)],
                                      DefaultParent, LibPrefix)
  /\ lstate' = "body"
  /\ UNCHANGED <<layout, have_docutils, require_docutils, lexc, sections>>
  /\ UNCHANGED <<indentVars, gridVars, emitVars, unitVars>>

\* Lines 866-868: not one widget section, the body starts empty.
LayoutNoWidgets ==
  /\ lstate = "parsed"
  /\ CountCheck(Named(sections, "widgets"), Named(sections, "menu")) = NoExc
  /\ Len(Named(sections, "widgets")) # 1
  /\ lstate' = "body"
  /\ UNCHANGED <<layout, have_docutils, require_docutils, lexc, sections,
                 method_body>>
  /\ UNCHANGED <<indentVars, gridVars, emitVars, unitVars>>

\* Lines 894-906: the menus are added and the method text is returned.
LayoutReturn ==
  /\ lstate = "body"
  /\ method_body' = method_body \o MenusCode(Named(sections, "menu"), 1,
                                             DefaultParent, LibPrefix)
  /\ lstate' = "returned"
  /\ UNCHANGED <<layout, have_docutils, require_docutils, lexc, sections>>
  /\ UNCHANGED <<indentVars, gridVars, emitVars, unitVars>>

LayoutNext ==
  \/ LayoutSplit
  \/ LayoutSplitRaises
  \/ LayoutParse
  \/ LayoutParseRaises
  \/ LayoutCountRaises
  \/ LayoutMerge
  \/ LayoutMergeRaises
  \/ LayoutMismatch
  \/ LayoutWidgets
  \/ LayoutNoWidgets
  \/ LayoutReturn

SpecLayout == LayoutInit /\ [][LayoutNext]_vars

\* ------------------------- WidgetSection.generate_widget_code, stepwise

\* The widget lines of the trees: line k names the widget WidgetNames[k].
EmitWidgetLines(k) ==
  {WidgetLine(i, WidgetNames[k], m, EmptyDict) :
     i \in {0, 1, 2}, m \in {NoName, "grid"}}

\* The texts of n such lines.
RECURSIVE EmitLines(_)
EmitLines(n) ==
  IF n = 0 THEN {<<>>}
  ELSE {Append(ws, l) : ws \in EmitLines(n - 1), l \in EmitWidgetLines(n)}

\* A generator of generate_widget_code (lines 374-382): its list, the place
\* of w in it, its parent and where it stands in the loop body.
Frame(list, parent) == [list |-> list, i |-> 1, parent |-> parent, at |-> "construct"]

\* generate_widget_code(widgets, parent, lib_prefix) is called on the tree
\* WidgetSection.parse made of 0..MaxEmitLines widget lines, and iterated.
EmitInit ==
  /\ IndentIdle
  /\ GridIdle
  /\ LayoutIdle
  /\ UnitIdle
  /\ \E n \in 0..MaxEmitLines : \E ws \in EmitLines(n) :
       emit_sec = ParseWidgets([NewSection("widgets", NoName)
                                  EXCEPT !.lines = ws]).sec
  /\ emit_prefix \in {NoName, "", "tk", "tk."}
  /\ top_parent \in {"self", "self.top"}
  /\ frames = <<Frame(emit_sec.nodes, top_parent)>>
  /\ yielded = <<>>
  /\ estate = "run"
  /\ eexc = NoExc

\* The innermost generator and the widget w of its loop.
TopFrame == Last(frames)

AtWidget(at) ==
  /\ estate = "run"
  /\ TopFrame.i <= Len(TopFrame.list)
  /\ TopFrame.at = at

CurWidget == emit_sec.specs[TopFrame.list[TopFrame.i]]

\* The innermost generator moves on in its loop body.
Advance(at) == [frames EXCEPT ![Len(frames)].at = at]

\* Lines 376-377 and 272-290: w.code yields the statement that creates w.
EmitConstruct ==
  /\ AtWidget("construct")
  /\ emit_prefix # NoName
  /\ yielded' = Append(yielded, ConstructStmt(CurWidget, TopFrame.parent, emit_prefix))
  /\ frames' = Advance("layout")
  /\ UNCHANGED <<emit_sec, emit_prefix, top_parent, estate, eexc>>
  /\ UNCHANGED <<indentVars, gridVars, layoutVars, unitVars>>

\* Line 277: lib_prefix is None and has no rstrip.
EmitRaises ==
  /\ AtWidget("construct")
  /\ emit_prefix = NoName
  /\ estate' = "raised"
  /\ eexc' = [type |-> "AttributeError"]
  /\ UNCHANGED <<emit_sec, emit_prefix, top_parent, frames, yielded>>
  /\ UNCHANGED <<indentVars, gridVars, layoutVars, unitVars>>

\* Lines 376-377 and 293-295: w.code yields the layout statement.
EmitLayout ==
  /\ AtWidget("layout")
  /\ yielded' = Append(yielded, LayoutStmt(CurWidget))
  /\ frames' = Advance("children")
  /\ UNCHANGED <<emit_sec, emit_prefix, top_parent, estate, eexc>>
  /\ UNCHANGED <<indentVars, gridVars, layoutVars, unitVars>>

\* Lines 380-381: the generator for the children of w is made and iterated.
EmitRecurse ==
  /\ AtWidget("children")
  /\ frames' = Append(frames,
                      Frame(emit_sec.children[TopFrame.list[TopFrame.i]],
                            "self." \o CurWidget.name))
  /\ UNCHANGED <<emit_sec, emit_prefix, top_parent, yielded, estate, eexc>>
  /\ UNCHANGED <<indentVars, gridVars, layoutVars, unitVars>>

\* Lines 381 and 374: an inner generator is exhausted; the loop of the
\* generator that made it takes its next widget.
EmitExhausted ==
  /\ estate = "run"
  /\ TopFrame.i > Len(TopFrame.list)
  /\ Len(frames) > 1
  /\ frames' = [Front(frames) EXCEPT ![Len(frames) - 1].i = @ + 1,
                                     ![Len(frames) - 1].at = "construct"]
  /\ UNCHANGED <<emit_sec, emit_prefix, top_parent, yielded, estate, eexc>>
  /\ UNCHANGED <<indentVars, gridVars, layoutVars, unitVars>>

\* Line 374: the outermost generator is exhausted.
EmitDone ==
  /\ estate = "run"
  /\ TopFrame.i > Len(TopFrame.list)
  /\ Len(frames) = 1
  /\ estate' = "done"
  /\ UNCHANGED <<emit_sec, emit_prefix, top_parent, frames, yielded, eexc>>
  /\ UNCHANGED <<indentVars, gridVars, layoutVars, unitVars>>

EmitNext ==
  \/ EmitConstruct
  \/ EmitRaises
  \/ EmitLayout
  \/ EmitRecurse
  \/ EmitExhausted
  \/ EmitDone

SpecEmit == EmitInit /\ [][EmitNext]_vars

\* ------------------------------ generate_widget_code: properties

\* The nodes of the tree.
EmitNodes == DOMAIN emit_sec.specs

\* The tree parent of a node (0 for a top-level node).
TreeParent(w) ==
  IF w \in Range(emit_sec.nodes) THEN 0
  ELSE CHOOSE p \in EmitNodes : w \in Range(emit_sec.children[p])

\* A node and its descendants.
RECURSIVE Subtree(_)
Subtree(w) == {w} \cup UNION {Subtree(c) : c \in Range(emit_sec.children[w])}

\* The pairs of a node and its next sibling.
NextSiblings ==
  UNION {{<<l[k], l[k + 1]>> : k \in 1..(Len(l) - 1)} :
           l \in {emit_sec.nodes} \cup Range(emit_sec.children)}

\* The construction statement the claim expects for a node.
Construction(w) ==
  Line("self." \o emit_sec.specs[w].name \o " = "
       \o (IF emit_prefix \in {"tk", "tk."} THEN "tk.Frame" ELSE "Frame")
       \o "("
       \o (IF TreeParent(w) = 0 THEN top_parent
           ELSE "self." \o emit_sec.specs[TreeParent(w)].name)
       \o ")")

\* The layout-manager call the claim expects for a node.
LayoutCall(w) ==
  Call("self." \o emit_sec.specs[w].name \o "."
         \o (IF emit_sec.specs[w].layout_mgr = NoName THEN "pack"
             ELSE emit_sec.specs[w].layout_mgr),
       {}, "")

\* Where the construction of a node has been yielded.
Places(w) == {i \in 1..Len(yielded) : yielded[i] = Construction(w)}

Place(w) == CHOOSE i \in Places(w) : TRUE

\* C8: generate_widget_code walks the tree depth-first in pre-order. The
\* statements come in pairs, the construction of a node and then its
\* layout call ('pack' for an unset manager); no node is constructed twice
\* or before its parent, whose name is the parent argument of the
\* construction (the supplied parent for a top-level node); once the walk
\* is over every node has its pair, a node's pair precedes those of its
\* descendants and its whole subtree precedes its next sibling.
C8_PreOrder ==
  /\ \A i \in 1..Len(yielded) :
       IF i % 2 = 1
         THEN \E w \in EmitNodes : yielded[i] = Construction(w)
         ELSE \E w \in EmitNodes : /\ yielded[i - 1] = Construction(w)
                                   /\ yielded[i] = LayoutCall(w)
  /\ \A w \in EmitNodes :
       /\ Cardinality(Places(w)) <= 1
       /\ (Places(w) # {} /\ TreeParent(w) # 0) =>
            (Places(TreeParent(w)) # {} /\ Place(TreeParent(w)) < Place(w))
  /\ estate = "done" =>
       /\ Len(yielded) = 2 * Cardinality(EmitNodes)
       /\ \A w \in EmitNodes : Cardinality(Places(w)) = 1
       /\ \A w \in EmitNodes : \A d \in Subtree(w) \ {w} : Place(w) < Place(d)
       /\ \A ab \in NextSiblings : \A d \in Subtree(ab[1]) : Place(d) < Place(ab[2])

\* The walk of w1 with the child w2 (manager unset) and the sibling w3 is
\* over.
C8_Witness ==
  /\ estate = "done"
  /\ emit_sec.nodes = <<1, 3>>
  /\ emit_sec.children[1] = <<2>>
  /\ emit_sec.specs[2].layout_mgr = NoName
  /\ Len(yielded) = 6

\* ------------------------------------ create_layout_method: properties

\* The call is over.
Final == lstate \in {"returned", "raised"}

\* parse_layout_spec got as far as a list of sections.
SplitOk == SplitSections(layout).exc = NoExc

NumWidgets == Len(Named(sections, "widgets"))

NumMenus == Len(Named(sections, "menu"))

NumGrids == Len(Named(sections, "grid"))

\* The widget section the merge and the validation work on.
WidgetSec == sections[WidgetSecAt(sections)]

\* The containers of a widget tree: the root (0) and every node that has
\* children.
TreeContainers(sec) ==
  {0} \cup {w \in DOMAIN sec.specs : sec.children[w] # <<>>}

\* The layout manager a widget resolves to.
Resolved(sec, c) ==
  IF sec.specs[c].layout_mgr = NoName THEN "pack" ELSE sec.specs[c].layout_mgr

\* The resolved managers of the direct children of container p.
ResolvedManagers(sec, p) ==
  {Resolved(sec, c) : c \in Range(ListAt(sec, p))}

\* The containers whose direct children resolve to two managers or more.
Conflicts(sec) ==
  {p \in TreeContainers(sec) : Cardinality(ResolvedManagers(sec, p)) >= 2}

\* C2: after the merge, text is returned only if the direct children of
\* every container (the root included) share one resolved manager, an unset
\* one counting as 'pack'; if some container's children resolve to two or
\* more managers the call fails with a LayoutError that names such a
\* container ('self' for the root) and its distinct managers, and no text
\* has been produced.
C2_ManagersAgree ==
  /\ []((lstate = "returned" /\ NumWidgets = 1) => Conflicts(WidgetSec) = {})
  /\ [][lstate = "merged" =>
          IF Conflicts(WidgetSec) = {}
            THEN lstate' = "body" /\ lexc' = NoExc
            ELSE /\ lstate' = "raised"
                 /\ lexc'.type = "LayoutError"
                 /\ lexc'.msg = "mismatch"
                 /\ \E p \in Conflicts(WidgetSec) :
                      /\ lexc'.container =
                           IF p = 0 THEN "self" ELSE WidgetSec.specs[p].name
                      /\ lexc'.managers = ResolvedManagers(WidgetSec, p)
                 /\ method_body' = <<>>
       ]_vars

\* Three top-level widgets, two left to the default and one set to grid:
\* the call failed naming 'self' and both managers.
C2_Witness ==
  /\ lstate = "raised"
  /\ "container" \in DOMAIN lexc
  /\ lexc.container = "self"
  /\ lexc.managers = {"pack", "grid"}
  /\ NumWidgets = 1
  /\ Len(WidgetSec.nodes) = 3
  /\ Cardinality({c \in Range(WidgetSec.nodes) :
                    WidgetSec.specs[c].layout_mgr = NoName}) = 2
  /\ Cardinality({c \in Range(WidgetSec.nodes) :
                    WidgetSec.specs[c].layout_mgr = "grid"}) = 1

\* The statements that create a widget of the inputs.
ConstructStmts ==
  {ConstructStmt([name |-> n, kind |-> "Frame", params |-> ""], par, LibPrefix) :
     n \in Range(WidgetNames),
     par \in {DefaultParent} \cup {"self." \o m : m \in Range(WidgetNames)}}

\* The generated body holds menu code and nothing of a widget section.
MenuCodeOnly ==
  /\ method_body # <<>>
  /\ method_body[1] = Line("")
  /\ \A i \in 1..Len(method_body) :
       /\ method_body[i] # Line("# Widgets")
       /\ method_body[i] \notin ConstructStmts
  /\ Cardinality({i \in 1..Len(method_body) :
                    method_body[i] = Line("# Menu: menubar")}) = NumMenus

\* C3 as stated: the call fails with a LayoutError when the split spec has
\* neither a widgets nor a menu section, and when it has more than one
\* widgets section; with no widgets section and at least one menu section
\* it succeeds and emits only menu code; whenever it succeeds there are 0
\* or 1 widgets sections.
C3_SectionCounts ==
  (SplitOk /\ Final) =>
    /\ (NumWidgets = 0 /\ NumMenus = 0) =>
         (lstate = "raised" /\ IsLayoutError(lexc))
    /\ NumWidgets > 1 => (lstate = "raised" /\ IsLayoutError(lexc))
    /\ (NumWidgets = 0 /\ NumMenus >= 1) =>
         (lstate = "returned" /\ MenuCodeOnly)
    /\ lstate = "returned" => NumWidgets \in {0, 1}

\* A grid section that GridSection.parse refuses: docutils is missing and
\* required.
GridRefused == NumGrids >= 1 /\ ~have_docutils /\ require_docutils

\* C3 amended: as stated, but a spec with no widgets section and at least
\* one menu section succeeds only if it holds no grid section that fails
\* to parse; with docutils missing and required such a spec fails with a
\* GridError, which is a LayoutError.
C3_SectionCountsParsed ==
  (SplitOk /\ Final) =>
    /\ (NumWidgets = 0 /\ NumMenus = 0) =>
         (lstate = "raised" /\ IsLayoutError(lexc))
    /\ NumWidgets > 1 => (lstate = "raised" /\ IsLayoutError(lexc))
    /\ (NumWidgets = 0 /\ NumMenus >= 1) =>
         IF GridRefused
           THEN lstate = "raised" /\ lexc.type = "GridError"
           ELSE lstate = "returned" /\ MenuCodeOnly
    /\ lstate = "returned" => NumWidgets \in {0, 1}

\* A spec of a menu section and a grid section, and no widgets section,
\* whose grid section parses: menu code only.
C3_Witness ==
  /\ lstate = "returned"
  /\ NumWidgets = 0
  /\ NumMenus >= 1
  /\ NumGrids = 1
  /\ MenuCodeOnly

\* What a call makes known: how it ended, the type of the exception and
\* the statements generated.
Outcome(result, e, body) == [result |-> result, exc |-> e.type, body |-> body]

\* The outcome of lines 850-906 for the sections parse_layout_spec split
\* the text into.
OutcomeOf(secs, have, required) ==
  LET parsed == ParseFrom(secs, 1, have, required)
      widgets == Named(parsed.sections, "widgets")
      menus == Named(parsed.sections, "menu")
      merged == apply_grid_attributes(Named(parsed.sections, "grid"), widgets[1])
      menu_code == MenusCode(menus, 1, DefaultParent, LibPrefix)
  IN  IF parsed.exc # NoExc THEN Outcome("raised", parsed.exc, <<>>)
      ELSE IF CountCheck(widgets, menus) # NoExc
        THEN Outcome("raised", CountCheck(widgets, menus), <<>>)
      ELSE IF Len(widgets) # 1 THEN Outcome("returned", NoExc, menu_code)
      ELSE IF merged.exc # NoExc THEN Outcome("raised", merged.exc, <<>>)
      ELSE IF Mismatched(merged.sec) # {}
        THEN Outcome("raised", [type |-> "LayoutError"], <<>>)
      ELSE Outcome("returned", NoExc,
                   WidgetSectionCode(merged.sec, DefaultParent, LibPrefix)
                     \o menu_code)

\* The sections of the text that are not grid sections.
WithoutGrids ==
  SelectSeq(SplitSections(layout).sections, LAMBDA sec : sec.name # "grid")

\* C6: with docutils missing and not required, the call ends as it does for
\* the same spec without its grid sections (returns or raises alike, the
\* same statements generated); with docutils missing and required, a spec
\* that holds a non-empty grid section fails with GridError (or with the
\* WidgetError of a widgets section parsed before the grid section).
C6_GridsSkipped ==
  (SplitOk /\ Final /\ ~have_docutils) =>
    IF require_docutils
      THEN NumGrids >= 1 =>
             (lstate = "raised" /\ lexc.type \in {"GridError", "WidgetError"})
      ELSE Outcome(lstate, lexc, method_body)
             = OutcomeOf(WithoutGrids, have_docutils, require_docutils)

\* C7: the names of the widgets of a tree the call accepts are pairwise
\* different, so that index_widgets holds one entry for every node.
C7_UniqueNames ==
  (lstate = "returned" /\ NumWidgets = 1) =>
    /\ \A a, b \in DOMAIN WidgetSec.specs :
         a # b => WidgetSec.specs[a].name # WidgetSec.specs[b].name
    /\ Cardinality(DOMAIN index_widgets(WidgetSec, WidgetSec.nodes, EmptyDict))
         = Len(WidgetSec.lines)

\* ------------------------------- parse_layout_spec: the comment removal

\* The characters of a line: a letter, a blank and the comment sign.
LineChars == {"a", " ", "#"}

\* \s of comment_re and the characters str.rstrip() removes.
IsSpace(c) == c = " "

\* comment_re (line 690), '^(.*)\s*#.*$': the lengths group 1 can have, that
\* is the prefixes of l followed by blanks, a '#' and the rest of the line.
CommentSplits(l) ==
  {i \in 0..Len(l) : \E j \in (i + 1)..Len(l) :
     /\ l[j] = "#"
     /\ \A k \in (i + 1)..(j - 1) : IsSpace(l[k])}

\* m.group(1) of comment_re.match(l) (lines 711-713): '(.*)' is greedy, the
\* match takes the longest prefix the pattern admits.
CommentGroup(l) == SubSeq(l, 1, Max(CommentSplits(l)))

\* l.rstrip() (line 715).
RstripSpace(l) ==
  SubSeq(l, 1, Max({0} \cup {i \in 1..Len(l) : ~IsSpace(l[i])}))

\* Lines 711-715: the text kept of the line l.
StripComment(l) ==
  RstripSpace(IF CommentSplits(l) # {} THEN CommentGroup(l) ELSE l)

\* The for loop of line 709 has taken a line.
CommentInit ==
  /\ cline \in SeqsOf(LineChars, 0, MaxChars)
  /\ ckept = <<>>
  /\ cstate = "read"
  /\ IndentIdle
  /\ GridIdle
  /\ LayoutIdle
  /\ EmitIdle
  /\ LabelIdle
  /\ MenuIdle

\* Lines 711-715.
CommentStrip ==
  /\ cstate = "read"
  /\ ckept' = StripComment(cline)
  /\ cstate' = "stripped"
  /\ UNCHANGED cline
  /\ UNCHANGED <<indentVars, gridVars, layoutVars, emitVars, labelVars, menuVars>>

CommentNext ==
  \/ CommentStrip

SpecComment == CommentInit /\ [][CommentNext]_vars

\* The positions of '#' in l.
Hashes(l) == {i \in 1..Len(l) : l[i] = "#"}

\* The prefix of l before its first '#', all of l if it has none.
BeforeFirstHash(l) ==
  IF Hashes(l) = {} THEN l ELSE SubSeq(l, 1, Min(Hashes(l)) - 1)

\* C11: the text kept of a line is its prefix before the first '#',
\* right-stripped, so the kept text holds no '#', whatever the number of '#'
\* of the line.
C11_FirstHash ==
  cstate = "stripped" =>
    /\ ckept = RstripSpace(BeforeFirstHash(cline))
    /\ Hashes(ckept) = {}

\* ------------------------------ parse_layout_spec: the section splitting

\* The first header line of ls after position h, Len(ls) + 1 if none.
NextHeader(ls, h) ==
  Min({j \in (h + 1)..Len(ls) : ls[j].kind = "header"} \cup {Len(ls) + 1})

\* The section a header line announces, read from that line alone; position
\* 0 stands for the implicit 'widgets' section.
Announced(ls, h) ==
  [name  |-> IF h = 0 THEN "widgets"
             ELSE IF Len(ls[h].names) > 0 THEN ls[h].names[1] ELSE NoName,
   param |-> IF h > 0 /\ Len(ls[h].names) > 1 THEN ls[h].names[2] ELSE NoName,
   lines |-> SubSeq(ls, h + 1, NextHeader(ls, h) - 1)]

\* The announced sections from the opener at position h on, in input order,
\* those without a content line left out.
RECURSIVE AnnouncedFrom(_, _)
AnnouncedFrom(ls, h) ==
  IF h > Len(ls) THEN <<>>
  ELSE (IF Announced(ls, h).lines # <<>> THEN <<Announced(ls, h)>> ELSE <<>>)
         \o AnnouncedFrom(ls, NextHeader(ls, h))

\* C12: the splitting returns for every text, in input order, exactly the
\* sections that received a content line, each with the kind and parameter
\* of the header line that opened it (the implicit 'widgets' section for the
\* lines before the first header) and with the content lines up to the next
\* header; this for every header, one with blank brackets included.
C12_SplitByHeaders ==
  /\ lexc.type # "UnboundLocalError"
  /\ lstate = "split" =>
       [i \in 1..Len(sections) |->
          [name |-> sections[i].name, param |-> sections[i].param,
           lines |-> sections[i].lines]]
         = AnnouncedFrom(layout, 0)

\* The same for the texts whose headers all name a section.
C12_NamedHeaders ==
  (\A i \in 1..Len(layout) : layout[i].kind = "header" => Len(layout[i].names) > 0)
    => C12_SplitByHeaders

\* -------------------------- GridSection.parse: one entry of a later row

\* The name of the entry under study.
EntryName == "w9"

\* GridSection.parse is about to handle a named entry of the second row of
\* a table (line 468): the first row is done, any cells of the second row
\* are marked by row-spans of the first, and the entry's first guess
\* i + col_offset lies within the row.  The document tree hands over every
\* descendant <entry> of a row (line 466), those of a table nested in a
\* cell included, so an entry can arrive whatever the marks of its row are.
GridEntryInit ==
  /\ IndentIdle
  /\ LayoutIdle
  /\ EmitIdle
  /\ UnitIdle
  /\ gstate = "entry"
  /\ gexc = "none"
  /\ num_rows = 2
  /\ num_cols \in 1..MaxCols
  /\ cell_row = 1
  /\ \E origin \in 0..(num_cols - 1) :
       /\ entry_i \in 0..origin
       /\ col_offset = origin - entry_i
  /\ \E marks \in [0..(num_cols - 1) -> BOOLEAN] :
       cell_map = [r \in 0..1 |-> IF r = 0 THEN [c \in 0..(num_cols - 1) |-> TRUE]
                                  ELSE marks]
  /\ grid_data \in {GridDataInit(prm) : prm \in {NoName, "w1"}}
  /\ covered = <<>>
  /\ truth = EmptyDict
  /\ last_entry = NoEntry

\* Lines 468-504 for that entry, a cell without spans.
GridEntryAlone ==
  /\ gstate = "entry"
  /\ LET res == ParseEntry(GridNow, cell_row, entry_i,
                           [name |-> EntryName, morecols |-> 0, morerows |-> 0],
                           num_cols)
     IN  /\ cell_map' = res.cell_map
         /\ grid_data' = res.grid_data
         /\ col_offset' = res.col_offset
         /\ gexc' = res.exc
         /\ gstate' = IF res.exc = "none" THEN "entered" ELSE "raised"
  /\ entry_i' = entry_i + 1
  /\ UNCHANGED <<num_rows, num_cols, cell_row, covered, truth, last_entry>>
  /\ UNCHANGED <<indentVars, layoutVars, emitVars, unitVars>>

GridEntryNext ==
  \/ GridEntryAlone

SpecGridEntry == GridEntryInit /\ [][GridEntryNext]_vars

\* The unmarked columns of the current row from the entry's first guess on.
FreeFromOrigin ==
  {c \in (entry_i + col_offset)..(num_cols - 1) : ~cell_map[cell_row][c]}

\* The entry's first guess is a cell a row-span has marked.
OriginOccupied ==
  /\ gstate = "entry"
  /\ cell_map[cell_row][entry_i + col_offset]

\* C13: a named entry whose origin cell is marked by a row-span is recorded
\* at the first unmarked column of its row from the origin on; if every
\* column from the origin to the last one is marked the call fails with a
\* GridError, and with no other error.
C13_OccupiedOrigin ==
  [][OriginOccupied =>
       IF FreeFromOrigin # {}
         THEN /\ gstate' = "entered"
              /\ grid_data'[EntryName].row = cell_row
              /\ grid_data'[EntryName].column = Min(FreeFromOrigin)
         ELSE /\ gstate' = "raised"
              /\ gexc' = "GridError"]_vars

\* The first half alone: with an unmarked column left, the entry is
\* recorded there.
C13_SkipsToFree ==
  [][(OriginOccupied /\ FreeFromOrigin # {}) =>
       /\ gstate' = "entered"
       /\ grid_data'[EntryName].row = cell_row
       /\ grid_data'[EntryName].column = Min(FreeFromOrigin)]_vars

\* ----------------------------- apply_grid_attributes: the default rows

\* create_layout_method is about to call apply_grid_attributes (line 875).
Merging ==
  /\ lstate = "parsed"
  /\ CountCheck(Named(sections, "widgets"), Named(sections, "menu")) = NoExc
  /\ Len(Named(sections, "widgets")) = 1

\* The widget section handed over and the gindex built from the grids.
MergeSec == sections[WidgetSecAt(sections)]

MergeIndex ==
  GridIndex(Named(sections, "grid"), 1,
            index_widgets(MergeSec, MergeSec.nodes, EmptyDict), EmptyDict)

\* The widget section once the table coordinates are merged (line 813).
Tabled == ApplyTables(SetGridManagers(MergeSec, MergeIndex), MergeIndex)

\* The grid-bound children lists.
BoundLists == {ListAt(Tabled, MergeIndex[k].list) : k \in DOMAIN MergeIndex}

\* The children of a list that lack the parameter key at that point, in
\* declared order: all of them, or those managed by grid.
Lacking(list, key, only_grid) ==
  SelectSeq(list, LAMBDA c :
    /\ key \notin DOMAIN Tabled.specs[c].layout_params
    /\ only_grid => Tabled.specs[c].layout_mgr = "grid")

\* The widget specs when apply_grid_attributes has returned.
Merged == sections'[WidgetSecAt(sections)].specs

\* What the call does to the grid-bound lists: LayoutError if one of them
\* has no row value; else the children lacking a row get max+1, max+2, ...
\* in declared order, those lacking a column get column 0, all have a row
\* and a column afterwards, and no row given out equals another row of the
\* list.  only_grid restricts "the children" to those managed by grid.
DefaultsPlaced(only_grid) ==
  IF \E list \in BoundLists : RowsOf(Tabled.specs, list) = {}
    THEN /\ lstate' = "raised"
         /\ lexc'.type = "LayoutError"
    ELSE /\ lstate' = "merged"
         /\ \A list \in BoundLists :
              LET mx == Max(RowsOf(Tabled.specs, list))
                  norow == Lacking(list, "row", only_grid)
                  nocol == Lacking(list, "column", only_grid)
              IN  /\ \A j \in 1..Len(norow) :
                       /\ "row" \in DOMAIN Merged[norow[j]].layout_params
                       /\ Merged[norow[j]].layout_params["row"] = IntVal(mx + j)
                       /\ \A c \in Range(list) \ {norow[j]} :
                            "row" \in DOMAIN Merged[c].layout_params
                              => ToInt(Merged[c].layout_params["row"]) # mx + j
                  /\ \A j \in 1..Len(nocol) :
                       /\ "column" \in DOMAIN Merged[nocol[j]].layout_params
                       /\ Merged[nocol[j]].layout_params["column"] = IntVal(0)
                  /\ \A c \in Range(list) :
                       (only_grid => Tabled.specs[c].layout_mgr = "grid")
                         => {"row", "column"} \subseteq DOMAIN Merged[c].layout_params

\* C14 (as claimed): for each grid-bound children list, once the table
\* coordinates are merged: no child with a row value is a LayoutError;
\* otherwise every child lacking a row receives max+1, max+2, ... in
\* declared order and every child lacking a column receives column 0, so
\* that every child of the list has a row and a column, and no row given
\* out equals any other row of the list.
C14_DefaultRows == [][Merging => DefaultsPlaced(FALSE)]_vars

\* C14 (amended): the same for the children whose layout manager is grid;
\* a child with another manager is left as it is.
C14_DefaultRowsOfGrid ==
  [][Merging =>
       /\ DefaultsPlaced(TRUE)
       /\ lstate' = "merged" =>
            \A list \in BoundLists : \A c \in Range(list) :
              Tabled.specs[c].layout_mgr # "grid"
                => Merged[c] = Tabled.specs[c]]_vars

\* A merge has given out row 1 in a list that also holds a child managed
\* by pack, left without a row (the rows written in the text and in the
\* table are 0).
C14_Witness ==
  /\ lstate = "merged"
  /\ NumGrids = 1
  /\ \E list \in {WidgetSec.nodes} \cup Range(WidgetSec.children) :
       /\ \E c \in Range(list) :
            /\ "row" \in DOMAIN WidgetSec.specs[c].layout_params
            /\ WidgetSec.specs[c].layout_params["row"] = IntVal(1)
       /\ \E c \in Range(list) :
            /\ WidgetSec.specs[c].layout_mgr = "pack"
            /\ "row" \notin DOMAIN WidgetSec.specs[c].layout_params

\* ------------------------------- apply_grid_attributes: what it leaves

\* The owner of the list that holds widget c: 0 for the root list.
OwnerOf(sec, c) ==
  IF c \in Range(sec.nodes) THEN 0
  ELSE CHOOSE k \in DOMAIN sec.children : c \in Range(sec.children[k])

\* The container a grid section resolves to in the tree of sec: the root
\* (0) for a section without param, else the widget of that name the
\* depth-first walk meets last; none if no widget has the name.
ResolvedContainers(sec, grids) ==
  {0 : i \in {j \in 1..Len(grids) : grids[j].param = NoName}}
    \cup {Max({k \in DOMAIN sec.specs : sec.specs[k].name = grids[i].param}) :
            i \in {j \in 1..Len(grids) :
                     \E k \in DOMAIN sec.specs : sec.specs[k].name = grids[j].param}}

\* C20: a returning apply_grid_attributes leaves every widget whose owner
\* is not the resolved container of a grid section with its layout manager
\* and layout parameters; it adds, removes and moves no node, changes no
\* name, class or constructor parameters and no other section; grid
\* sections that resolve to no container change nothing at all.
C20_MergeFrame ==
  [][(Merging /\ lstate' = "merged") =>
       LET at == WidgetSecAt(sections)
           before == sections[at]
           after == sections'[at]
           bound == ResolvedContainers(before, Named(sections, "grid"))
       IN  /\ Len(sections') = Len(sections)
           /\ \A i \in 1..Len(sections) : i # at => sections'[i] = sections[i]
           /\ after.nodes = before.nodes
           /\ after.children = before.children
           /\ after.lines = before.lines
           /\ DOMAIN after.specs = DOMAIN before.specs
           /\ \A c \in DOMAIN before.specs :
                /\ after.specs[c].name = before.specs[c].name
                /\ after.specs[c].kind = before.specs[c].kind
                /\ after.specs[c].params = before.specs[c].params
                /\ OwnerOf(before, c) \notin bound
                     => after.specs[c] = before.specs[c]
           /\ bound = {} => after = before]_vars

\* A merge has placed a child of a grid-bound container while another
\* widget, outside every grid-bound list, is still without a manager.
C20_Witness ==
  /\ lstate = "merged"
  /\ NumGrids = 1
  /\ \E c, d \in DOMAIN WidgetSec.specs :
       /\ OwnerOf(WidgetSec, c)
            \in ResolvedContainers(WidgetSec, Named(sections, "grid"))
       /\ "column" \in DOMAIN WidgetSec.specs[c].layout_params
       /\ OwnerOf(WidgetSec, d)
            \notin ResolvedContainers(WidgetSec, Named(sections, "grid"))
       /\ WidgetSec.specs[d].layout_mgr = NoName

\* ------------------------ parse_indented_list: nothing lost or reordered

\* The depth-first pre-order walk of the lists of st, from the list given.
RECURSIVE PreOrder(_, _)
PreOrder(st, list) ==
  IF list = <<>> THEN <<>>
  ELSE <<Head(list)>> \o PreOrder(st, st.children[Head(list)])
                      \o PreOrder(st, Tail(list))

\* How often node i occurs in the lists of the forest.
Occurrences(i) ==
  Cardinality({<<k, j>> \in (0..Len(lines)) \X (1..Len(lines)) :
                 /\ j <= Len(ListAt(IndentNow, k))
                 /\ ListAt(IndentNow, k)[j] = i})

\* C18: as long as parse_func returns, the forest built from the first pos
\* lines holds exactly their pos nodes, each once, in one list, and its
\* depth-first pre-order walk is the order of the lines; throughout the
\* scan the frame stack is not empty and its bottom frame is the root list.
C18_NothingLost ==
  pstate \in {"scan", "returned"} =>
    /\ Len(stack) >= 1
    /\ stack[1][2] = 0
    /\ PreOrder(IndentNow, nodes) = [i \in 1..pos |-> i]
    /\ \A i \in 1..pos : Occurrences(i) = 1 /\ Cardinality(Owners(i)) = 1
    /\ \A i \in (pos + 1)..Len(lines) : Occurrences(i) = 0
    /\ pstate = "returned" => pos = Len(lines)

\* A list of MaxLines lines with a child, a grandchild and a dedent below
\* the first line's indent has been parsed.
C18_Witness ==
  /\ pstate = "returned"
  /\ Len(lines) = MaxLines
  /\ \E i \in DOMAIN children : \E j \in Range(children[i]) : children[j] # <<>>
  /\ \E i \in 2..Len(lines) : Indents[i] < Indents[1]
  /\ Len(nodes) >= 2

\* --------------------------------------------------- MenuSpec.__init__

\* MenuSpec(label, kind, params) is called.
LabelInit ==
  /\ label_in \in SeqsOf(LabelChars, 0, MaxChars)
  /\ label_spec = [label |-> <<>>, underline |-> -1]
  /\ label_state = "called"
  /\ IndentIdle
  /\ GridIdle
  /\ LayoutIdle
  /\ EmitIdle
  /\ CommentIdle
  /\ MenuIdle

\* Lines 520-536.
LabelStore ==
  /\ label_state = "called"
  /\ label_spec' = MenuLabel(label_in)
  /\ label_state' = "stored"
  /\ UNCHANGED label_in
  /\ UNCHANGED <<indentVars, gridVars, layoutVars, emitVars, commentVars, menuVars>>

LabelNext ==
  \/ LabelStore

SpecLabel == LabelInit /\ [][LabelNext]_vars

Letters == {"A", "b"}

\* The places (1-based) of the '&' of l that stand right before a letter.
MarksBeforeLetter(l) ==
  {i \in 1..(Len(l) - 1) : l[i] = "&" /\ l[i + 1] \in Letters}

\* C16: if the (unquoted) label has an '&' right before a letter, the first
\* such '&' is removed and underline is its 0-based offset, within the
\* stored label and at the designated letter; otherwise underline is -1 and
\* the stored label is the unquoted label. At most one character is removed.
C16_Underline ==
  label_state = "stored" =>
    LET given == StripQuotes(label_in)
        marks == MarksBeforeLetter(given)
        m == Min(marks)
    IN  /\ Len(given) - Len(label_spec.label) \in {0, 1}
        /\ IF marks # {}
             THEN /\ label_spec.label
                       = SubSeq(given, 1, m - 1) \o SubSeq(given, m + 1, Len(given))
                  /\ label_spec.underline = m - 1
                  /\ label_spec.underline < Len(label_spec.label)
                  /\ label_spec.label[label_spec.underline + 1] = given[m + 1]
             ELSE /\ label_spec.underline = -1
                  /\ label_spec.label = given

\* The same for the labels whose only '&', if any, stands before a letter.
C16_PlainMarks ==
  (\A i \in 1..Len(StripQuotes(label_in)) :
     StripQuotes(label_in)[i] = "&" => i \in MarksBeforeLetter(StripQuotes(label_in)))
    => C16_Underline

\* ------------------------------------------------- MenuSection.code

\* The lines of a menu section: at indent 0..2, the item `A`, the check
\* item `[] &A`, the radio item `* "B'" command=f` (its label B' is put
\* into the code in double quotes) or the separator `----`.
MenuLineSet ==
  {MenuLine(e.kind, i, e.mark, e.label, e.params) :
     i \in 0..2,
     e \in {[kind |-> "item", mark |-> NoName, label |-> <<"A">>, params |-> ""],
            [kind |-> "item", mark |-> "[]", label |-> <<"&", "A">>, params |-> ""],
            [kind |-> "item", mark |-> "*", label |-> <<"\"", "B", "'", "\"">>,
             params |-> "command=f"],
            [kind |-> "sep", mark |-> NoName, label |-> <<"-", "-", "-", "-">>,
             params |-> ""]}}

\* default_menu (line 664).
DefaultMenu == "menubar"

\* menu_name (line 665).
MenuName(sec) == IF sec.param \notin {NoName, ""} THEN sec.param ELSE DefaultMenu

\* Line 620: the statement that creates a sub-menu.
SubmenuStmt(next_parent, prefix, parent) ==
  Line("self." \o next_parent \o " = " \o prefix
       \o "Menu(self." \o parent \o ", tearoff=0)")

\* Lines 630-639: the statement that hangs a sub-menu into its parent.
CascadeStmt(spec, parent, next_parent) ==
  Call("self." \o parent \o ".add_cascade", LabelArgs(spec),
       ", menu=self." \o next_parent)

\* Lines 676-681: the lines that install the default menu.
AttachLines(prefix, name) ==
  <<Line("if isinstance(self, " \o prefix \o "Toplevel):"),
    Line("  self.config(menu=self." \o name \o ")"),
    Line("elif isinstance(self.master, " \o prefix
         \o "Tk) or isinstance(self.master, " \o prefix \o "Toplevel):"),
    Line("  self.master.config(menu=self." \o name \o ")")>>

\* A generator of generate_menu_code (lines 616-639): its list, the place
\* of i in it, its parent, its local next_parent and where it stands in the
\* loop body.
MenuFrame(list, parent) ==
  [list |-> list, i |-> 1, parent |-> parent, next_parent |-> parent,
   at |-> "head"]

\* MenuSection.parse has made the tree of 0..MaxMenuLines lines and
\* code(parent, lib_prefix) is called and iterated.
MenuInit ==
  /\ IndentIdle
  /\ GridIdle
  /\ LayoutIdle
  /\ EmitIdle
  /\ CommentIdle
  /\ LabelIdle
  /\ \E n \in 0..MaxMenuLines : \E ls \in [1..n -> MenuLineSet] :
       \E prm \in {NoName, "mb"} :
         menu_sec = ParseMenu([NewSection("menu", prm) EXCEPT !.lines = ls]).sec
  /\ menu_frames = <<>>
  /\ menu_out = <<>>
  /\ menu_src = <<>>
  /\ menu_attach_i = 0
  /\ menu_state = "called"

\* What a step of the generators leaves alone.
MenuKeeps ==
  /\ UNCHANGED <<menu_sec, menu_attach_i>>
  /\ UNCHANGED <<indentVars, gridVars, layoutVars, emitVars, commentVars, labelVars>>

\* A line is yielded for item w.
MenuYield(ls, w) ==
  /\ menu_out' = menu_out \o ls
  /\ menu_src' = menu_src \o [k \in 1..Len(ls) |-> w]

\* Line 667.
MenuHeading ==
  /\ menu_state = "called"
  /\ MenuYield(<<Line("# Menu: " \o MenuName(menu_sec))>>, 0)
  /\ menu_state' = "heading"
  /\ UNCHANGED menu_frames
  /\ MenuKeeps

\* Lines 669-670: the root menu is created and the generator for the items
\* is made.
MenuRoot ==
  /\ menu_state = "heading"
  /\ MenuYield(<<Line("self." \o MenuName(menu_sec) \o " = " \o MenuPrefix(LibPrefix)
                      \o "Menu(" \o DefaultParent \o ", tearoff=0)")>>, 0)
  /\ menu_frames' = <<MenuFrame(menu_sec.nodes, MenuName(menu_sec))>>
  /\ menu_state' = "items"
  /\ MenuKeeps

\* The innermost generator and the item i of its loop.
MenuTop == Last(menu_frames)

MenuAt(at) ==
  /\ menu_state = "items"
  /\ MenuTop.i <= Len(MenuTop.list)
  /\ MenuTop.at = at

MenuItem == MenuTop.list[MenuTop.i]

\* Lines 618-620: an item with children; its sub-menu is created.
MenuSubmenu ==
  /\ MenuAt("head")
  /\ Len(menu_sec.children[MenuItem]) > 0
  /\ LET np == MenuName(menu_sec) \o menu_sec.specs[MenuItem].prop_label
     IN  /\ MenuYield(<<SubmenuStmt(np, MenuPrefix(LibPrefix), MenuTop.parent)>>,
                      MenuItem)
         /\ menu_frames' = [menu_frames EXCEPT ![Len(menu_frames)].next_parent = np,
                                               ![Len(menu_frames)].at = "children"]
  /\ UNCHANGED menu_state
  /\ MenuKeeps

\* Lines 621-623: an item without children; i.code(parent) yields its call.
MenuLeaf ==
  /\ MenuAt("head")
  /\ Len(menu_sec.children[MenuItem]) = 0
  /\ MenuYield(<<MenuItemCode(menu_sec.specs[MenuItem], MenuTop.parent)>>, MenuItem)
  /\ menu_frames' = [menu_frames EXCEPT ![Len(menu_frames)].at = "children"]
  /\ UNCHANGED menu_state
  /\ MenuKeeps

\* Lines 625-626: the generator for the children of i is made and iterated.
MenuRecurse ==
  /\ MenuAt("children")
  /\ menu_frames' = Append(menu_frames,
                           MenuFrame(menu_sec.children[MenuItem], MenuTop.next_parent))
  /\ UNCHANGED <<menu_out, menu_src, menu_state>>
  /\ MenuKeeps

\* Line 626: an inner generator is exhausted; the one that made it goes on
\* after its loop over ccode.
MenuExhausted ==
  /\ menu_state = "items"
  /\ MenuTop.i > Len(MenuTop.list)
  /\ Len(menu_frames) > 1
  /\ menu_frames' = [Front(menu_frames) EXCEPT ![Len(menu_frames) - 1].at = "tail"]
  /\ UNCHANGED <<menu_out, menu_src, menu_state>>
  /\ MenuKeeps

\* Lines 629-639: the sub-menu of an item with children is hung into the
\* parent menu; the loop takes the next item.
MenuCascade ==
  /\ MenuAt("tail")
  /\ Len(menu_sec.children[MenuItem]) > 0
  /\ MenuYield(<<CascadeStmt(menu_sec.specs[MenuItem], MenuTop.parent,
                             MenuTop.next_parent)>>, MenuItem)
  /\ menu_frames' = [menu_frames EXCEPT ![Len(menu_frames)].i = @ + 1,
                                        ![Len(menu_frames)].at = "head"]
  /\ UNCHANGED menu_state
  /\ MenuKeeps

\* Lines 629 and 617: nothing more for an item without children.
MenuNoCascade ==
  /\ MenuAt("tail")
  /\ Len(menu_sec.children[MenuItem]) = 0
  /\ menu_frames' = [menu_frames EXCEPT ![Len(menu_frames)].i = @ + 1,
                                        ![Len(menu_frames)].at = "head"]
  /\ UNCHANGED <<menu_out, menu_src, menu_state>>
  /\ MenuKeeps

\* Line 670: the outermost generator is exhausted.
MenuItemsDone ==
  /\ menu_state = "items"
  /\ MenuTop.i > Len(MenuTop.list)
  /\ Len(menu_frames) = 1
  /\ menu_state' = "attach"
  /\ UNCHANGED <<menu_frames, menu_out, menu_src>>
  /\ MenuKeeps

\* Lines 675-681: the default menu is installed; the loop of lines 680-681
\* yields the next line of menu_attach.
MenuAttach ==
  /\ menu_state = "attach"
  /\ MenuName(menu_sec) = DefaultMenu
  /\ menu_attach_i < Len(AttachLines(MenuPrefix(LibPrefix), MenuName(menu_sec)))
  /\ MenuYield(<<AttachLines(MenuPrefix(LibPrefix),
                             MenuName(menu_sec))[menu_attach_i + 1]>>, 0)
  /\ menu_attach_i' = menu_attach_i + 1
  /\ UNCHANGED <<menu_frames, menu_state, menu_sec>>
  /\ UNCHANGED <<indentVars, gridVars, layoutVars, emitVars, commentVars, labelVars>>

\* Line 680: the lines of menu_attach are exhausted and the generator ends.
MenuAttached ==
  /\ menu_state = "attach"
  /\ MenuName(menu_sec) = DefaultMenu
  /\ menu_attach_i = Len(AttachLines(MenuPrefix(LibPrefix), MenuName(menu_sec)))
  /\ menu_state' = "done"
  /\ UNCHANGED <<menu_frames, menu_out, menu_src>>
  /\ MenuKeeps

\* Line 675: a menu of another name is left to the caller.
MenuNoAttach ==
  /\ menu_state = "attach"
  /\ MenuName(menu_sec) # DefaultMenu
  /\ menu_state' = "done"
  /\ UNCHANGED <<menu_frames, menu_out, menu_src>>
  /\ MenuKeeps

MenuNext ==
  \/ MenuHeading
  \/ MenuRoot
  \/ MenuSubmenu
  \/ MenuLeaf
  \/ MenuRecurse
  \/ MenuExhausted
  \/ MenuCascade
  \/ MenuNoCascade
  \/ MenuItemsDone
  \/ MenuAttach
  \/ MenuAttached
  \/ MenuNoAttach

SpecMenu == MenuInit /\ [][MenuNext]_vars

\* The generators yield what the recursive reading of the code yields.
MenuStepwise ==
  menu_state = "done" =>
    menu_out = MenuSectionCode(menu_sec, DefaultParent, LibPrefix)

\* ------------------------------------- MenuSection.code: properties

\* The items of the tree.
MenuNodes == DOMAIN menu_sec.specs

\* The tree parent of an item (0 for a top-level item).
MenuParent(w) ==
  IF w \in Range(menu_sec.nodes) THEN 0
  ELSE CHOOSE p \in MenuNodes : w \in Range(menu_sec.children[p])

\* An item and its descendants.
RECURSIVE MenuSubtree(_)
MenuSubtree(w) == {w} \cup UNION {MenuSubtree(c) : c \in Range(menu_sec.children[w])}

\* The pairs of an item and its next sibling.
MenuSiblings ==
  UNION {{<<l[k], l[k + 1]>> : k \in 1..(Len(l) - 1)} :
           l \in {menu_sec.nodes} \cup Range(menu_sec.children)}

NonLeaf(w) == menu_sec.children[w] # <<>>

\* The attribute a non-leaf item's sub-menu is bound to, and the menu of an
\* item's tree parent (the root menu for 0).
SubmenuName(w) == MenuName(menu_sec) \o menu_sec.specs[w].prop_label

MenuOf(p) == IF p = 0 THEN MenuName(menu_sec) ELSE SubmenuName(p)

\* The statements the claims expect.
RootCreation ==
  Line("self." \o MenuName(menu_sec) \o " = tk.Menu(self, tearoff=0)")

LeafCall(w) ==
  LET spec == menu_sec.specs[w]
      on == "self." \o MenuOf(MenuParent(w))
  IN  CASE spec.kind = "separator" -> Line(on \o ".add_separator()")
        [] spec.kind = "check" ->
             Call(on \o ".add_checkbutton", LabelArgs(spec),
                  IF spec.params = "" THEN "" ELSE ", " \o spec.params)
        [] spec.kind = "radio" ->
             Call(on \o ".add_radiobutton", LabelArgs(spec),
                  IF spec.params = "" THEN "" ELSE ", " \o spec.params)
        [] OTHER ->
             Call(on \o ".add_command", LabelArgs(spec),
                  IF spec.params = "" THEN "" ELSE ", " \o spec.params)

Creation(w) ==
  Line("self." \o SubmenuName(w) \o " = tk.Menu(self."
       \o MenuOf(MenuParent(w)) \o ", tearoff=0)")

Cascade(w) ==
  Call("self." \o MenuOf(MenuParent(w)) \o ".add_cascade",
       LabelArgs(menu_sec.specs[w]), ", menu=self." \o SubmenuName(w))

\* Where the statements of an item, and of a set of items, have been
\* yielded.
StmtsOf(w) == {i \in 1..Len(menu_out) : menu_src[i] = w}

StmtsOfAll(ws) == {i \in 1..Len(menu_out) : menu_src[i] \in ws}

\* C15: menu emission is depth-first pre-order. The root menu is created
\* before any statement of an item. A leaf item yields one call, by its
\* kind, on the menu of its tree parent. A non-leaf item yields the creation
\* of its sub-menu under the parent's menu, then the statements of all its
\* descendants, then one add_cascade on the parent's menu that names the
\* sub-menu; the statements of its next sibling come after all of these.
C15_MenuPreOrder ==
  /\ menu_state \in {"items", "attach", "done"} =>
       /\ menu_out[1] = Line("# Menu: " \o MenuName(menu_sec))
       /\ menu_out[2] = RootCreation
       /\ \A w \in MenuNodes : \A i \in StmtsOf(w) : i > 2
  /\ \A w \in MenuNodes :
       IF NonLeaf(w)
         THEN /\ Cardinality(StmtsOf(w)) <= 2
              /\ StmtsOf(w) # {} => menu_out[Min(StmtsOf(w))] = Creation(w)
              /\ Cardinality(StmtsOf(w)) = 2 =>
                   menu_out[Max(StmtsOf(w))] = Cascade(w)
              /\ \A i \in StmtsOfAll(MenuSubtree(w) \ {w}) :
                   /\ StmtsOf(w) # {}
                   /\ Min(StmtsOf(w)) < i
                   /\ Cardinality(StmtsOf(w)) = 2 => i < Max(StmtsOf(w))
         ELSE /\ Cardinality(StmtsOf(w)) <= 1
              /\ \A i \in StmtsOf(w) : menu_out[i] = LeafCall(w)
  /\ \A ab \in MenuSiblings :
       \A j \in StmtsOfAll(MenuSubtree(ab[2])) :
         /\ \A d \in MenuSubtree(ab[1]) :
              Cardinality(StmtsOf(d)) = IF NonLeaf(d) THEN 2 ELSE 1
         /\ \A i \in StmtsOfAll(MenuSubtree(ab[1])) : i < j
  /\ menu_state \in {"attach", "done"} =>
       \A w \in MenuNodes :
         Cardinality(StmtsOf(w)) = IF NonLeaf(w) THEN 2 ELSE 1

\* The code of a menu is complete: `A` with the check item below it, then
\* a separator at the top level.
C15_Witness ==
  /\ menu_state = "done"
  /\ menu_sec.nodes = <<1, 3>>
  /\ menu_sec.children[1] = <<2>>
  /\ menu_sec.specs[2].kind = "check"
  /\ menu_sec.specs[3].kind = "separator"
  /\ Len(menu_out) >= 6

\* C17 (as claimed): a separator item has an empty label, empty params and
\* no children, whatever lines follow it, and the code of the section holds
\* for it one add_separator call without arguments and nothing else.
C17_SeparatorLeaf ==
  \A w \in MenuNodes :
    menu_sec.specs[w].kind = "separator" =>
      /\ menu_sec.specs[w].label = ""
      /\ menu_sec.specs[w].params = ""
      /\ menu_sec.children[w] = <<>>
      /\ menu_state = "done" =>
           /\ Cardinality(StmtsOf(w)) = 1
           /\ \A i \in StmtsOf(w) :
                menu_out[i] = Line("self." \o MenuOf(MenuParent(w))
                                   \o ".add_separator()")

\* The statements that bind an attribute to a new menu: the root creation
\* and the first statement of every non-leaf item.
Binders == {2} \cup {Min(StmtsOf(w)) : w \in {x \in MenuNodes : NonLeaf(x)}}

Bound(i) == IF i = 2 THEN MenuName(menu_sec) ELSE SubmenuName(menu_src[i])

\* C19 (as claimed): within one menu section the attributes of the menus
\* are pairwise distinct: two distinct non-leaf items are bound to different
\* names, none of them the root menu's, so no creation statement of the
\* section rebinds an attribute an earlier one has bound.
C19_DistinctMenuNames ==
  menu_state = "done" =>
    /\ \A a, b \in MenuNodes :
         (NonLeaf(a) /\ NonLeaf(b) /\ a # b) => SubmenuName(a) # SubmenuName(b)
    /\ \A a \in MenuNodes : NonLeaf(a) => SubmenuName(a) # MenuName(menu_sec)
    /\ \A i, j \in Binders : i # j => Bound(i) # Bound(j)

====
